---- MODULE Spec2Model ----
(***************************************************************************)
(* A model of the SmartFrame scraper's orchestration engine:               *)
(*   - ProxyManager (server/proxy-manager.ts): round-robin pool, health    *)
(*   - SmartFrameScraper.extractImageData / processImagesInParallel /      *)
(*     retryFailedImages (server/scraper.ts): navigation retry, batches,   *)
(*     the retry pass and the failure table                                *)
(*   - SmartFrameScraper.scrape / autoScroll (server/scraper.ts): link     *)
(*     discovery with the visited-page loop guard                          *)
(*   - the worker pages of processImagesInParallel / retryFailedImages:    *)
(*     opened before the batches, one per task of a batch, closed at exit  *)
(* Each component has its own specification over the shared variables; a   *)
(* specification leaves the other components' variables untouched.         *)
(***************************************************************************)
EXTENDS Integers, Sequences, FiniteSets, TLC

(***************************************************************************)
(* Bounds of the model                                                     *)
(***************************************************************************)
\* largest pool the proxy specification constructs
NumProxies == 2
\* cap on an endpoint's failedRequests counter (must exceed maxFailures)
MaxFailCount == 3
\* cap on the number of getNextProxy calls that are counted
MaxCalls == 3

\* largest number of links the extraction pass is given
NumItems == 2

\* navigations and page extractions of one job that do not go well
MaxFaults == 3
\* largest config.concurrency the job specification chooses
MaxConcurrency == 2

\* longest list collectPageImageLinks returns
MaxLinks == 2

\* most img elements on the collection page, and largest config.maxImages
MaxImg == 2

\* where the count of loop bodies on an unchanged page stops counting
IterCap == 3
MaxVerify == 2

\* the most continuations one I/O event of the callers resolves
MaxPending == 2

\* the most label/value pairs of a detail page
MaxLabels == 2

\* the most pieces a text handed to the sanitizer is written with
MaxPieces == 5

(***************************************************************************)
(* Program constants                                                       *)
(***************************************************************************)
\* scraper.ts:1613  const maxAttempts = 3
maxAttempts == 3
\* scraper.ts:1627, 1685  const delay = 2000 * Math.pow(2, attempt - 1)
backoffBaseMs == 2000
\* RETRY_IMPROVEMENTS.md:75  const delay = 5000 * Math.pow(2, attempt - 1)
rateLimitBaseMs == 5000
\* scraper.ts:258  retryFailedImages(failures, thumbnails, 2, jobId)
retryConcurrency == 2
\* schema.ts:15  maxRetryRounds: z.number().min(1).max(5).default(3)
defaultMaxRetryRounds == 3
\* scraper.ts:139  const maxAttempts = 3 (entry navigation)
entryMaxAttempts == 3
\* scraper.ts:155  setTimeout(resolve, 2000 * attempts)
entryBackoffMs == 2000

\* cleanTextHelper: the longest value it returns, and the most lines
maxTextLength == 200

maxTextLines == 3
\* RETRY_IMPROVEMENTS.md:220  maxVerifyAttempts: 10 (constructor default)
defaultMaxVerifyAttempts == 10
\* scraper.ts:581  const patienceRounds = 5
patienceRounds == 5
\* proxy-manager.ts:31  private readonly maxFailures = 3
maxFailures == 3

VARIABLES
  \* ---- ProxyManager ----
  proxies,        \* this.proxies: sequence of endpoint keys
  currentIndex,   \* this.currentIndex (0-based)
  stats,          \* this.stats: endpoint key -> ProxyStats
  \* ---- history of the proxy pool (not program state) ----
  lastOp,         \* the last ProxyManager call: [op, p, ret, wasHealthy], told
                  \* apart for getNextProxy, recordSuccess and recordFailure
  rotation,       \* getNextProxy calls so far while every endpoint has always
                  \* been healthy; Broken once an endpoint was unhealthy
  struckOut,      \* endpoint -> TRUE once maxFailures consecutive recordFailure
                  \* calls were made on it, until its next recordSuccess
  cleanStreak,    \* endpoint -> recordFailure calls since its counter was last reset
  manualDown      \* endpoint -> TRUE while it is unhealthy by setProxyHealth(p, false)

VARIABLES
  \* ---- SmartFrameScraper.scrape: the extraction pass and the retry pass ----
  config,         \* ScrapeConfig: [extractDetails, concurrency, maxRetryRounds]
  jobPc,          \* where scrape() stands: "extract", "retry", "finalize", "completed",
                  \* "threw"
  limitedLinks,   \* the links scrape() hands to processImagesInParallel
  work,           \* the items the running pass walks: linkData, or failures
  batchStart,     \* i of the pass's batch loop
  batchOpen,      \* TRUE while the promises of a batch are pending
  task,           \* item -> [pc, attempt, delay] of its extractImageData call: the
                  \* loop counter and the last backoff; the local httpStatus is
                  \* written by every navigation before it is read
  batchResults,   \* item -> what its promise of the open batch resolved to
  results,        \* results of the running pass
  images,         \* images of scrape()
  failureLog,     \* failedScrapesLogger: item -> FailedScrape
  failures,       \* the failures scrape() read with getFailures() for the retry
  metadataCache,  \* the imageIds of metadataCache whose payload gives a title or
                  \* a photographer
  faults,         \* navigations and page extractions that went wrong so far
  retryRound,     \* calls of retryFailedImages scrape() has made
  jobStatus,      \* status of the job's row in storage
  storedImages    \* the rows of the job in the table of scraped images, in the
                  \* order they were inserted

VARIABLES
  \* ---- SmartFrameScraper.scrape / autoScroll: link discovery ----
  maxImages,      \* config.maxImages, 0 for unlimited
  autoScroll,     \* config.autoScroll
  discPc,         \* "initial", "head", "click", "scroll", "clickAtBottom",
                  \* "patience", "final", "done"
  pageUrl,        \* page.url() of the collection page
  pageImgs,       \* number of img elements on the collection page
  imageCount,     \* autoScroll's imageCount
  visitedPages,   \* autoScroll's visitedPages, keys as <<url, imageCount>>
  justClickedPagination,
  round,          \* round of the patience loop
  discoveredLinks,\* the Map of scrape(), as its entries in insertion order
  progress,       \* progress last written by autoScroll's onProgress
  \* ---- history of the discovery (not program state) ----
  fixedPage,      \* TRUE while URL and img count are as at the start
  iterations,     \* loop bodies started while fixedPage, up to IterCap
  exitBy,         \* how autoScroll left its loop: "limit", "visited", "patience"
  rediscovered,   \* TRUE once a collection met an id again with another link
  lastCollected,  \* the list the last step set into discoveredLinks, <<>> if none
  stepDone,       \* what the last step of the discovery achieved: "page change",
                  \* "click progress", "scroll growth", "patience growth",
                  \* "idle click" and "idle click at bottom" (a click that left
                  \* URL and img count as they were), or "other"
  callbackRan     \* TRUE when the last step called onPageChange

VARIABLES
  \* ---- the worker pages of processImagesInParallel / retryFailedImages ----
  poolPass,       \* "extract": processImagesInParallel, "retry": retryFailedImages
  poolConcurrency,\* the concurrency argument
  linkCount,      \* linkData.length / failures.length
  poolPc,         \* "open", "loop", "batch", "progress", "close", "returned", "threw"
  pages,          \* page -> "none", "open", "closed", "close failed": the pages
                  \* this.browser.newPage() has returned, in the order of return
  pushed,         \* workerPages.length
  poolI,          \* i of the batch loop
  linkState,      \* link -> "waiting", "running", "settled": its task's promise
  linkPage,       \* link -> the page its task was given, 0 before it has one
  attemptedCount, \* attemptedCount of processImagesInParallel
  poolError,      \* the error that is on its way out: "none", "open", "progress"
  \* ---- history of the pool (not program state) ----
  progressCalls,  \* onProgress calls that have returned
  progressLog     \* the updates the progress callback has written to the job's
                  \* row, in order: [attempted, progress]

VARIABLES
  \* ---- SmartFrameScraper.scrape: the frame around discovery and extraction ----
  entryPc,        \* "new", "start", "navigate", "discover", "extract", "complete",
                  \* "epilogue", "catch", "finally", "returned", "threw"
  navAttempts,    \* attempts of the entry navigation loop
  navigationSuccess,
  entryDelay,     \* the last backoff of the entry navigation loop, ms
  caught,         \* the message of the error the try block threw, NoError if none
  onErrorSupplied,\* callbacks.onError is given
  onErrorCalls,   \* the messages callbacks.onError was called with
  thrown,         \* the message of the error scrape() rejects with
  session,        \* the discovery page: "none", "open", "closed"
  rowStatus,      \* status of the job's row in storage
  rowError,       \* error of the job's row in storage
  started         \* the phases scrape() has entered: "discovery", "extraction"

proxyVars == <<proxies, currentIndex, stats, lastOp, rotation,
               struckOut, cleanStreak, manualDown>>

jobVars == <<config, jobPc, limitedLinks, work, batchStart, batchOpen, task,
             batchResults, results, images, failureLog, failures, metadataCache,
             faults, retryRound, jobStatus, storedImages>>

\* what the tasks of a pass leave alone
runVars == <<retryRound, jobStatus, storedImages>>

discoveryVars == <<maxImages, autoScroll, discPc, pageUrl, pageImgs, imageCount,
                   visitedPages, justClickedPagination, round, discoveredLinks,
                   progress, fixedPage, iterations, exitBy, rediscovered,
                   lastCollected, stepDone, callbackRan>>

poolVars == <<poolPass, poolConcurrency, linkCount, poolPc, pages, pushed, poolI,
              linkState, linkPage, attemptedCount, poolError, progressCalls,
              progressLog>>

VARIABLES
  \* ---- VPNManager ----
  vpnConfig,      \* this.config after the constructor: [enabled, changeCommand,
                  \* verifyCommand, maxVerifyAttempts]; the commands as "is set"
  vpnOp,          \* the method the caller has called, "none" before the call
  vpnPc,          \* "idle", "change", "stabilize", "verify", "delay", "done"
  vpnAttempt,     \* attempt of waitForConnection's loop
  vpnLog,         \* what the manager did outside itself, in order: "exec change",
                  \* "wait waitAfterChange", "exec verify", "ip lookup",
                  \* "wait verifyDelay"
  vpnResults,     \* the results of the verifyConnection calls, in order
  changeFailed,   \* the change command was executed and failed
  vpnRet          \* what the called method returned: "pending", "true", "false"

vpnVars == <<vpnConfig, vpnOp, vpnPc, vpnAttempt, vpnLog, vpnResults, changeFailed,
             vpnRet>>

VARIABLES
  \* ---- ProxyManager.performHealthChecks on the event loop ----
  microtasks,     \* the promise reactions that are queued, in order: "health" is
                  \* the rest of performHealthChecks after its await, "caller" the
                  \* rest of a function that will record a success or a failure
  healthAt,       \* index in proxies of the endpoint whose check is awaited, 0
                  \* while no pass is running
  healthVerdict,  \* isHealthy as the awaited checkProxyHealth resolved it
  \* ---- history of the pass (not program state) ----
  readStats       \* the endpoint's ProxyStats as checkProxyHealth left them

healthVars == <<microtasks, healthAt, healthVerdict, readStats>>

VARIABLES
  \* ---- SmartFrameScraper.parseMetadata ----
  normPc,         \* the block parseMetadata stands before: "labels", "caption",
                  \* "title line", "json", "done"
  result,         \* the result object: field -> value, and tags
  hasCaption,     \* rawData.caption is not empty
  labelsLeft,     \* label/value pairs of rawData.labelValues still to come
  \* ---- history of the call (not program state) ----
  source,         \* the source the last block took its values from
  altered         \* the fields that held a value before the last block and hold
                  \* another one after it

normVars == <<normPc, result, hasCaption, labelsLeft, source, altered>>

VARIABLES
  \* ---- SmartFrameScraper.cleanTextHelper ----
  textPc,         \* "call" before the sanitizer has run, "returned" after;
                  \* "call again" and "returned again" for a second call
  text,           \* the argument, as the pieces it is written with
  cleaned         \* the value returned: <<>> for null, <<value>> otherwise

textVars == <<textPc, text, cleaned>>

entryVars == <<entryPc, navAttempts, navigationSuccess, entryDelay, caught,
               onErrorSupplied, onErrorCalls, thrown, session, rowStatus, rowError,
               started>>

\* the components that were added after the first four
restVars == <<entryVars, vpnVars, healthVars, normVars, textVars>>

vars == <<proxyVars, jobVars, discoveryVars, poolVars, restVars>>

\* what the actions of one component leave alone
notProxy == <<jobVars, discoveryVars, poolVars, restVars>>

notJob == <<proxyVars, discoveryVars, poolVars, restVars>>

notDiscovery == <<proxyVars, jobVars, poolVars, restVars>>

notPool == <<proxyVars, jobVars, discoveryVars, restVars>>

notEntry == <<proxyVars, jobVars, discoveryVars, poolVars, vpnVars, healthVars, normVars,
             textVars>>

notVpn == <<proxyVars, jobVars, discoveryVars, poolVars, entryVars, healthVars, normVars,
           textVars>>

notHealth == <<jobVars, discoveryVars, poolVars, entryVars, vpnVars, normVars, textVars>>

notNorm == <<proxyVars, jobVars, discoveryVars, poolVars, entryVars, vpnVars, healthVars,
            textVars>>

notText == <<proxyVars, jobVars, discoveryVars, poolVars, entryVars, vpnVars, healthVars,
            normVars>>

(***************************************************************************)
(* ProxyManager                                                            *)
(***************************************************************************)
Endpoints == 1..NumProxies

NoProxy == 0

\* ProxyStats as far as any operation reads it: failedRequests, isHealthy and
\* whether lastUsed is set.  totalRequests, successfulRequests, lastSuccess and
\* lastFailure are written but never read by the manager and are left out.
InitialStats == [failedRequests |-> 0, isHealthy |-> TRUE, lastUsed |-> FALSE]

\* the endpoints of the pool
Pool == {proxies[i] : i \in 1..Len(proxies)}

\* ScanFrom with the health test of line 97 dropped
RECURSIVE ScanFrom_IgnoreHealth(_, _)
ScanFrom_IgnoreHealth(idx, attempts) ==
  IF attempts >= Len(proxies)
  THEN [proxy |-> NoProxy, index |-> idx]
  ELSE [proxy |-> proxies[idx + 1], index |-> (idx + 1) % Len(proxies)]

\* ScanFrom with the cursor advance of line 93 dropped
RECURSIVE ScanFrom_CursorStuck(_, _)
ScanFrom_CursorStuck(idx, attempts) ==
  IF attempts >= Len(proxies)
  THEN [proxy |-> NoProxy, index |-> idx]
  ELSE LET proxy == proxies[idx + 1]
       IN IF stats[proxy].isHealthy
          THEN [proxy |-> proxy, index |-> idx]
          ELSE ScanFrom_CursorStuck((idx + 1) % Len(proxies), attempts + 1)

\* getNextProxy's while loop: starting at cursor idx, after `attempts` probes.
\* Yields the endpoint returned and the cursor left behind; NoProxy when the
\* loop ran a full cycle without meeting a healthy endpoint.
RECURSIVE ScanFrom(_, _)
ScanFrom(idx, attempts) ==
  IF attempts >= Len(proxies)
  THEN [proxy |-> NoProxy, index |-> idx]
  ELSE LET proxy == proxies[idx + 1]
           next  == (idx + 1) % Len(proxies)
       IN IF stats[proxy].isHealthy
          THEN [proxy |-> proxy, index |-> next]
          ELSE ScanFrom(next, attempts + 1)

\* NextProxyResult without the degraded mode of lines 104-112
NextProxyResult_NoDegraded ==
  IF Len(proxies) = 0
  THEN [proxy |-> NoProxy, index |-> currentIndex]
  ELSE ScanFrom(currentIndex, 0)

\* the result of getNextProxy in the current state: endpoint and new cursor
NextProxyResult ==
  IF Len(proxies) = 0
  THEN [proxy |-> NoProxy, index |-> currentIndex]
  ELSE LET scan == ScanFrom(currentIndex, 0)
       IN IF scan.proxy # NoProxy
          THEN scan
          ELSE \* degraded mode: this.proxies[startIndex]
               [proxy |-> proxies[currentIndex + 1], index |-> scan.index]

\* FailureStats with ">" for ">=" in the threshold test of line 140
FailureStats_Late(s) ==
  LET n == s.failedRequests + 1
  IN [s EXCEPT !.failedRequests = n,
               !.isHealthy = IF n > maxFailures THEN FALSE ELSE s.isHealthy]

\* recordFailure's effect on one ProxyStats
FailureStats(s) ==
  LET n == s.failedRequests + 1
  IN [s EXCEPT !.failedRequests = n,
               !.isHealthy = IF n >= maxFailures THEN FALSE ELSE s.isHealthy]

\* SuccessStats without the counter reset of line 124
SuccessStats_KeepCount(s) == [s EXCEPT !.isHealthy = TRUE]

\* recordSuccess's effect on one ProxyStats
SuccessStats(s) == [s EXCEPT !.failedRequests = 0, !.isHealthy = TRUE]

\* setProxyHealth's effect on one ProxyStats
HealthStats(s, isHealthy) ==
  [s EXCEPT !.isHealthy = isHealthy,
            !.failedRequests = IF isHealthy THEN 0 ELSE s.failedRequests]

\* checkProxyHealth: stale says whether more than an hour passed since lastUsed
\* (always so when lastUsed is null).  Yields the stats it leaves and its verdict.
CheckProxyHealth(s, stale) ==
  IF stale /\ s.failedRequests > 0
  THEN [stats |-> [s EXCEPT !.failedRequests = 0], healthy |-> TRUE]
  ELSE [stats |-> s, healthy |-> s.failedRequests < maxFailures]

\* one iteration of performHealthChecks' loop for one endpoint
HealthCheckedStats(s, stale) ==
  LET c == CheckProxyHealth(s, stale)
  IN HealthStats(c.stats, c.healthy)

\* lastOp after a call that is none of getNextProxy, recordSuccess, recordFailure
OtherOp == [op |-> "other", p |-> NoProxy, ret |-> NoProxy, wasHealthy |-> TRUE]

\* the value of rotation that stands for "an endpoint has been unhealthy"
Broken == MaxCalls + 1

\* the rotation history after a call that leaves the stats st
NoteHealth(st) == IF rotation # Broken /\ \A p \in Pool : st[p].isHealthy
                  THEN rotation ELSE Broken

GetNextProxy ==
  /\ rotation < MaxCalls \/ rotation = Broken
  /\ LET r == NextProxyResult
     IN /\ currentIndex' = r.index
        /\ stats' = IF r.proxy = NoProxy THEN stats
                    ELSE [stats EXCEPT ![r.proxy].lastUsed = TRUE]
        /\ lastOp' = [op |-> "getNextProxy", p |-> NoProxy, ret |-> r.proxy,
                      wasHealthy |-> TRUE]
  /\ rotation' = IF rotation = Broken THEN Broken ELSE rotation + 1
  /\ UNCHANGED <<proxies, struckOut, cleanStreak, manualDown>>
  /\ UNCHANGED notProxy

RecordSuccess(p) ==
  /\ stats' = [stats EXCEPT ![p] = SuccessStats(stats[p])]
  /\ lastOp' = [op |-> "recordSuccess", p |-> p, ret |-> NoProxy,
                wasHealthy |-> stats[p].isHealthy]
  /\ struckOut' = [struckOut EXCEPT ![p] = FALSE]
  /\ cleanStreak' = [cleanStreak EXCEPT ![p] = 0]
  /\ manualDown' = [manualDown EXCEPT ![p] = FALSE]
  /\ UNCHANGED <<proxies, currentIndex, rotation>>
  /\ UNCHANGED notProxy

RecordFailure(p) ==
  /\ stats[p].failedRequests < MaxFailCount
  /\ stats' = [stats EXCEPT ![p] = FailureStats(stats[p])]
  /\ lastOp' = [op |-> "recordFailure", p |-> p, ret |-> NoProxy, wasHealthy |-> TRUE]
  /\ cleanStreak' = [cleanStreak EXCEPT ![p] = @ + 1]
  /\ struckOut' = [struckOut EXCEPT ![p] = @ \/ cleanStreak'[p] >= maxFailures]
  /\ rotation' = NoteHealth(stats')
  /\ UNCHANGED <<proxies, currentIndex, manualDown>>
  /\ UNCHANGED notProxy

SetProxyHealth(p, isHealthy) ==
  /\ stats' = [stats EXCEPT ![p] = HealthStats(stats[p], isHealthy)]
  /\ lastOp' = OtherOp
  /\ cleanStreak' = [cleanStreak EXCEPT ![p] = IF isHealthy THEN 0 ELSE @]
  /\ manualDown' = [manualDown EXCEPT ![p] = ~isHealthy]
  /\ rotation' = NoteHealth(stats')
  /\ UNCHANGED <<proxies, currentIndex, struckOut>>
  /\ UNCHANGED notProxy

ResetStats ==
  /\ stats' = [p \in Endpoints |-> IF p \in Pool THEN InitialStats ELSE stats[p]]
  /\ lastOp' = OtherOp
  /\ cleanStreak' = [p \in Endpoints |-> IF p \in Pool THEN 0 ELSE cleanStreak[p]]
  /\ manualDown' = [p \in Endpoints |-> IF p \in Pool THEN FALSE ELSE manualDown[p]]
  /\ UNCHANGED <<proxies, currentIndex, rotation, struckOut>>
  /\ UNCHANGED notProxy

\* One pass of performHealthChecks.  The pass awaits only promises that are
\* already resolved, so it runs to its end within the timer's task.  staleSet
\* holds the endpoints last used more than an hour ago; a used endpoint without
\* failures is left out of it, because checkProxyHealth reads the age only
\* together with failedRequests > 0.
PerformHealthChecks ==
  /\ Len(proxies) > 0
  /\ \E staleSet \in SUBSET Pool :
       /\ \A p \in Pool : ~stats[p].lastUsed => p \in staleSet
       /\ \A p \in Pool : stats[p].lastUsed /\ stats[p].failedRequests = 0
                              => p \notin staleSet
       /\ stats' = [p \in Endpoints |->
                      IF p \in Pool THEN HealthCheckedStats(stats[p], p \in staleSet)
                      ELSE stats[p]]
       /\ cleanStreak' = [p \in Endpoints |->
                            IF p \in Pool /\ stats'[p].failedRequests = 0
                            THEN 0 ELSE cleanStreak[p]]
       /\ manualDown' = [p \in Endpoints |->
                           IF p \in Pool /\ stats'[p].isHealthy
                           THEN FALSE ELSE manualDown[p]]
  /\ lastOp' = OtherOp
  /\ rotation' = NoteHealth(stats')
  /\ UNCHANGED <<proxies, currentIndex, struckOut>>
  /\ UNCHANGED notProxy

NextProxy ==
  \/ GetNextProxy
  \/ \E p \in Pool : RecordSuccess(p)
  \/ \E p \in Pool : RecordFailure(p)
  \/ \E p \in Pool, h \in BOOLEAN : SetProxyHealth(p, h)
  \/ ResetStats
  \/ PerformHealthChecks

(***************************************************************************)
(* SmartFrameScraper: extractImageData, processImagesInParallel,           *)
(* retryFailedImages and the part of scrape() that runs them               *)
(***************************************************************************)
Items == 1..NumItems

\* page.goto rejected: timeout, DNS failure, connection reset
Throw == -1

\* response.status() of a detail-page navigation
Statuses == {200, 401, 403, 404, 429, 500}

Responses == Statuses \cup {Throw}

\* the statuses the documentation calls terminal
TerminalStatuses == {401, 403, 404}

RECURSIVE Pow2(_)
Pow2(n) == IF n <= 0 THEN 1 ELSE 2 * Pow2(n - 1)

MinOf(a, b) == IF a < b THEN a ELSE b

\* a FailedScrape: reason is the message followed by what retries appended to
\* it; httpStatus 0 and retryAttempt 0 stand for "undefined"
NoFailure == [reason |-> <<>>, attempts |-> 0, httpStatus |-> 0, retryAttempt |-> 0]

\* a ScrapedImage as far as the job looks at it: whose it is and whether one
\* of title, photographer, caption is set
Image(i, meaningful) == [imageId |-> i, meaningful |-> meaningful]

\* the image extractImageData sets out with: identifiers, and the fields of the
\* item's metadataCache payload when there is one (lines 1546-1602)
CachedImage(i) == Image(i, i \in metadataCache)

\* a promise that has not resolved / a task that resolved to null
Pending == [imageId |-> 0, meaningful |-> FALSE]

Null == [imageId |-> -1, meaningful |-> FALSE]

\* no extractImageData call / a call that has just been made
Idle == [pc |-> "idle", attempt |-> 0, delay |-> 0]

Called == [pc |-> "nav", attempt |-> 1, delay |-> 0]

\* an extractImageData call that has returned
Returned == [pc |-> "done", attempt |-> 0, delay |-> 0]

\* BackoffDelay with the exponent dropped: every retry waits the base delay
BackoffDelay_Flat(attempt) == backoffBaseMs

\* the delay extractImageData waits after failed attempt `attempt`
BackoffDelay(attempt) == backoffBaseMs * Pow2(attempt - 1)

\* NavClass with one more round of the loop
NavClass_OneMore(resp, attempt) ==
  IF resp = Throw \/ resp >= 500
  THEN IF attempt <= maxAttempts THEN "retry" ELSE "exhausted"
  ELSE IF resp >= 400 THEN "terminal" ELSE "ok"

\* how one navigation of extractImageData's for loop ends:
\* "retry" (wait and go round again), "exhausted", "terminal" or "ok"
NavClass(resp, attempt) ==
  IF resp = Throw
  THEN IF attempt = maxAttempts THEN "exhausted" ELSE "retry"
  ELSE IF resp >= 500
       THEN IF attempt < maxAttempts THEN "retry" ELSE "exhausted"
       ELSE IF resp = 404 \/ resp >= 400 THEN "terminal" ELSE "ok"

\* the FailedScrape extractImageData logs when a navigation ends its call
NavFailure(resp, attempt) ==
  IF resp = Throw
  THEN [reason |-> <<"Navigation timeout">>, attempts |-> maxAttempts,
        httpStatus |-> 0, retryAttempt |-> 0]
  ELSE IF resp >= 500
       THEN [reason |-> <<"HTTP Server Error after maxAttempts attempts">>,
             attempts |-> maxAttempts, httpStatus |-> resp, retryAttempt |-> 0]
       ELSE IF resp = 404
            THEN [reason |-> <<"HTTP 404 - Image Not Found">>, attempts |-> attempt,
                  httpStatus |-> resp, retryAttempt |-> 0]
            ELSE [reason |-> <<"HTTP Client Error">>, attempts |-> attempt,
                  httpStatus |-> resp, retryAttempt |-> 0]

\* what the page-level extraction can come to after a successful navigation
PageOutcomes == {"metadata", "identifiers", "error page", "no metadata", "exception"}

\* the FailedScrape extractImageData logs after the navigation succeeded
PageFailure(outcome) ==
  CASE outcome = "error page"  -> [reason |-> <<"Error page detected">>, attempts |-> 1,
                                   httpStatus |-> 0, retryAttempt |-> 0]
    [] outcome = "no metadata" -> [reason |-> <<"No metadata found">>, attempts |-> 1,
                                   httpStatus |-> 0, retryAttempt |-> 0]
    [] outcome = "exception"   -> [reason |-> <<"Detail extraction error">>, attempts |-> 1,
                                   httpStatus |-> 0, retryAttempt |-> 0]
    [] OTHER                   -> NoFailure

\* failedScrapesLogger.addFailure / removeSuccess on the table
AddFailure(log, i, failure) == [log EXCEPT ![i] = failure]

RemoveSuccess(log, i) == [log EXCEPT ![i] = NoFailure]

\* failedScrapesLogger.getFailures: the items that have a record
Failed(log) == {i \in Items : log[i] # NoFailure}

\* the orders getFailures can list the records of the items of S in
OrdersOf(S) ==
  {f \in [1..Cardinality(S) -> S] : \A a, b \in 1..Cardinality(S) : a # b => f[a] # f[b]}

\* the items scrape() hands to retryFailedImages: every item with a record
RetryInput(log) == Failed(log)

\* the batchSize of the running pass
BatchSize == IF jobPc = "retry" THEN retryConcurrency ELSE config.concurrency

\* the positions and the items of the batch at batchStart
BatchRange == (batchStart + 1)..MinOf(batchStart + BatchSize, Len(work))

BatchItems == {work[k] : k \in BatchRange}

\* TaskEnd with the test of line 1116 reduced to `image`: a retry counts every
\* record extractImageData returns as a recovery
TaskEnd_AnyImage(i, image, logged) ==
  LET log1 == IF logged = NoFailure THEN failureLog ELSE AddFailure(failureLog, i, logged)
  IN IF jobPc = "retry"
     THEN [log |-> RemoveSuccess(log1, i), result |-> image]
     ELSE [log |-> log1, result |-> image]

\* TaskEnd with `attempts: failure.attempts` for line 1129: a failed retry
\* writes the record back without counting the attempt
TaskEnd_SameAttempts(i, image, logged) ==
  LET log1 == IF logged = NoFailure THEN failureLog ELSE AddFailure(failureLog, i, logged)
  IN IF jobPc = "retry"
     THEN IF image.meaningful
          THEN [log |-> RemoveSuccess(log1, i), result |-> image]
          ELSE [log |-> AddFailure(log1, i,
                          [reason |-> Append(failures[i].reason, "retry failed"),
                           attempts |-> failures[i].attempts,
                           httpStatus |-> failures[i].httpStatus,
                           retryAttempt |-> failures[i].retryAttempt + 1]),
                result |-> Null]
     ELSE [log |-> log1, result |-> image]

\* The end of item i's task once its extractImageData call has returned `image`
\* having logged `logged` (NoFailure: nothing): the failure table it leaves and
\* what its promise resolves to.  In the extraction pass the image is the result;
\* in the retry pass the image counts only with title, photographer or caption.
TaskEnd(i, image, logged) ==
  LET log1 == IF logged = NoFailure THEN failureLog ELSE AddFailure(failureLog, i, logged)
  IN IF jobPc = "retry"
     THEN IF image.meaningful
          THEN [log |-> RemoveSuccess(log1, i), result |-> image]
          ELSE [log |-> AddFailure(log1, i,
                          [reason |-> Append(failures[i].reason, "retry failed"),
                           attempts |-> failures[i].attempts + 1,
                           httpStatus |-> failures[i].httpStatus,
                           retryAttempt |-> failures[i].retryAttempt + 1]),
                result |-> Null]
     ELSE [log |-> log1, result |-> image]

\* TaskThrew with line 437 returning the item's image instead of null
TaskThrew_ReturnsImage(i) ==
  [log |-> AddFailure(failureLog, i,
             [reason |-> <<"Uncaught exception">>, attempts |-> 1,
              httpStatus |-> 0, retryAttempt |-> 0]),
   result |-> CachedImage(i), rejects |-> FALSE]

\* TaskThrew with the catch of the task throwing the error on: the promise of
\* the task rejects
TaskThrew_Rethrows(i) ==
  [log |-> failureLog, result |-> Null, rejects |-> TRUE]

\* The end of item i's task when its extractImageData call threw: the catch of
\* the task logs the exception and the promise resolves to null.
TaskThrew(i) ==
  IF jobPc = "retry"
  THEN [log |-> AddFailure(failureLog, i,
                  [reason |-> <<"Retry exception">>,
                   attempts |-> failures[i].attempts + 1,
                   httpStatus |-> failures[i].httpStatus,
                   retryAttempt |-> failures[i].retryAttempt + 1]),
        result |-> Null, rejects |-> FALSE]
  ELSE [log |-> AddFailure(failureLog, i,
                  [reason |-> <<"Uncaught exception">>, attempts |-> 1,
                   httpStatus |-> 0, retryAttempt |-> 0]),
        result |-> Null, rejects |-> FALSE]

\* the pages a pool can open: `concurrency` of them
PageIds == 1..(IF MaxConcurrency > retryConcurrency THEN MaxConcurrency
               ELSE retryConcurrency)

\* the value of `caught` and `thrown` when no error was thrown
NoError == "none"

\* the values a component's variables keep under another component's specification
EntryParked ==
  /\ entryPc = "returned"
  /\ navAttempts = 0
  /\ navigationSuccess = FALSE
  /\ entryDelay = 0
  /\ caught = NoError
  /\ onErrorSupplied = FALSE
  /\ onErrorCalls = <<>>
  /\ thrown = NoError
  /\ session = "none"
  /\ rowStatus = "pending"
  /\ rowError = NoError
  /\ started = {}

VpnParked ==
  /\ vpnConfig = [enabled |-> FALSE, changeCommand |-> FALSE, verifyCommand |-> FALSE,
                  maxVerifyAttempts |-> defaultMaxVerifyAttempts]
  /\ vpnOp = "none"
  /\ vpnPc = "idle"
  /\ vpnAttempt = 0
  /\ vpnLog = <<>>
  /\ vpnResults = <<>>
  /\ changeFailed = FALSE
  /\ vpnRet = "pending"

HealthParked ==
  /\ microtasks = <<>>
  /\ healthAt = 0
  /\ healthVerdict = TRUE
  /\ readStats = InitialStats

\* a field without a value (null)
Absent == [src |-> "none", n |-> 0]

\* the scalar fields of the result that more than one source can set
ScalarFields == {"photographer", "authors", "copyright", "city", "country", "date",
                 "dateTaken", "title", "matchEvent"}

\* const result = { photographer: null, ..., tags: [], ... }
EmptyResult == [f \in ScalarFields \cup {"tags"} |-> IF f = "tags" THEN <<>> ELSE Absent]

NormParked ==
  /\ normPc = "done"
  /\ result = EmptyResult
  /\ hasCaption = FALSE
  /\ labelsLeft = 0
  /\ source = "raw"
  /\ altered = {}

TextParked ==
  /\ textPc = "returned"
  /\ text = <<>>
  /\ cleaned = <<>>

RestParked == EntryParked /\ VpnParked /\ HealthParked /\ NormParked /\ TextParked

PoolParked ==
  /\ poolPass = "extract"
  /\ poolConcurrency = 1
  /\ linkCount = 0
  /\ poolPc = "returned"
  /\ pages = [k \in PageIds |-> "none"]
  /\ pushed = 0
  /\ poolI = 0
  /\ linkState = [l \in Items |-> "waiting"]
  /\ linkPage = [l \in Items |-> 0]
  /\ attemptedCount = 0
  /\ poolError = "none"
  /\ progressCalls = 0
  /\ progressLog = <<>>

DiscoveryParked ==
  /\ maxImages = 0
  /\ autoScroll = FALSE
  /\ discPc = "done"
  /\ pageUrl = "u1"
  /\ pageImgs = 0
  /\ imageCount = 0
  /\ visitedPages = {}
  /\ justClickedPagination = FALSE
  /\ round = 1
  /\ discoveredLinks = <<>>
  /\ progress = 0
  /\ fixedPage = TRUE
  /\ iterations = 0
  /\ exitBy = "none"
  /\ rediscovered = FALSE
  /\ lastCollected = <<>>
  /\ stepDone = "other"
  /\ callbackRan = FALSE

ProxyParked ==
  /\ proxies = <<>>
  /\ currentIndex = 0
  /\ stats = [p \in Endpoints |-> InitialStats]
  /\ lastOp = [op |-> "new", p |-> NoProxy, ret |-> NoProxy, wasHealthy |-> TRUE]
  /\ rotation = 0
  /\ struckOut = [p \in Endpoints |-> FALSE]
  /\ cleanStreak = [p \in Endpoints |-> 0]
  /\ manualDown = [p \in Endpoints |-> FALSE]

InitJob ==
  /\ config \in [extractDetails : BOOLEAN, concurrency : 1..MaxConcurrency,
                  maxRetryRounds : {defaultMaxRetryRounds}]
  /\ jobPc = "extract"
  /\ limitedLinks \in {[k \in 1..n |-> k] : n \in 0..NumItems}
  /\ work = limitedLinks
  /\ batchStart = 0
  /\ batchOpen = FALSE
  /\ task = [i \in Items |-> Idle]
  /\ batchResults = [i \in Items |-> Pending]
  /\ results = <<>>
  /\ images = <<>>
  /\ failureLog = [i \in Items |-> NoFailure]
  /\ failures = [i \in Items |-> NoFailure]
  /\ metadataCache = {}
  /\ faults = 0
  /\ retryRound = 0
  /\ jobStatus = "scraping"
  /\ storedImages = <<>>
  /\ ProxyParked
  /\ DiscoveryParked
  /\ PoolParked
  /\ RestParked

\* batch.map(async ...): every task of the batch starts and runs to its first
\* await; with extractDetails false extractImageData returns at once.
StartBatch ==
  /\ jobPc \in {"extract", "retry"}
  /\ ~batchOpen
  /\ batchStart < Len(work)
  /\ batchOpen' = TRUE
  /\ LET details == jobPc = "retry" \/ config.extractDetails
     IN /\ task' = [i \in Items |->
                      IF i \in BatchItems
                      THEN IF details THEN Called ELSE Returned
                      ELSE task[i]]
        /\ batchResults' = [i \in Items |->
                              IF i \in BatchItems
                              THEN IF details THEN Pending ELSE CachedImage(i)
                              ELSE batchResults[i]]
  /\ UNCHANGED <<config, limitedLinks, metadataCache, jobPc, work, batchStart, results, images, failureLog,
                 failures, faults>>
  /\ UNCHANGED runVars
  /\ UNCHANGED notJob

\* one pass of extractImageData's for loop: page.goto answers resp
Navigate(i, resp) ==
  /\ batchOpen
  /\ task[i].pc = "nav"
  /\ resp # 200 => faults < MaxFaults
  /\ faults' = IF resp # 200 THEN faults + 1 ELSE faults
  /\ LET class == NavClass(resp, task[i].attempt)
     IN CASE class = "retry" ->
               /\ task' = [task EXCEPT ![i] = [pc |-> "nav",
                                              attempt |-> task[i].attempt + 1,
                                              delay |-> BackoffDelay(task[i].attempt)]]
               /\ UNCHANGED <<batchResults, failureLog>>
          [] class = "ok" ->
               /\ task' = [task EXCEPT ![i].pc = "extract"]
               /\ UNCHANGED <<batchResults, failureLog>>
          [] OTHER ->
               LET end == TaskEnd(i, CachedImage(i), NavFailure(resp, task[i].attempt))
               IN /\ task' = [task EXCEPT ![i] = Returned]
                  /\ failureLog' = end.log
                  /\ batchResults' = [batchResults EXCEPT ![i] = end.result]
  /\ UNCHANGED <<config, limitedLinks, metadataCache, jobPc, work, batchStart, batchOpen, results, images, failures>>
  /\ UNCHANGED runVars
  /\ UNCHANGED notJob

\* extractImageData throws before its try block, while it maps the item's
\* metadataCache payload to the image (lines 1573-1602). A promise that
\* rejects makes Promise.all reject, the pass throw, and the catch of scrape()
\* store the status "error" (lines 349-354).
Uncaught(i) ==
  /\ batchOpen
  /\ task[i].pc = "nav"
  /\ task[i].attempt = 1
  /\ faults < MaxFaults
  /\ faults' = faults + 1
  /\ LET end == TaskThrew(i)
     IN /\ failureLog' = end.log
        /\ batchResults' = [batchResults EXCEPT ![i] = end.result]
        /\ jobPc' = IF end.rejects THEN "threw" ELSE jobPc
        /\ jobStatus' = IF end.rejects THEN "error" ELSE jobStatus
  /\ task' = [task EXCEPT ![i] = Returned]
  /\ UNCHANGED <<config, limitedLinks, metadataCache, work, batchStart, batchOpen, results,
                 images, failures, retryRound, storedImages>>
  /\ UNCHANGED notJob

\* the rest of extractImageData after navSuccess: waits, page.evaluate, the
\* error-page and no-metadata tests, parseMetadata and the merge
ExtractPage(i, outcome) ==
  /\ batchOpen
  /\ task[i].pc = "extract"
  /\ outcome # "metadata" => faults < MaxFaults
  /\ faults' = IF outcome # "metadata" THEN faults + 1 ELSE faults
  /\ LET image == Image(i, outcome = "metadata" \/ i \in metadataCache)
         end == TaskEnd(i, image, PageFailure(outcome))
     IN /\ failureLog' = end.log
        /\ batchResults' = [batchResults EXCEPT ![i] = end.result]
  /\ task' = [task EXCEPT ![i] = Returned]
  /\ UNCHANGED <<config, limitedLinks, metadataCache, jobPc, work, batchStart, batchOpen, results, images, failures>>
  /\ UNCHANGED runVars
  /\ UNCHANGED notJob

\* the non-null results of the open batch from position k on, in batch order
RECURSIVE ValidImages(_)
ValidImages(k) ==
  IF k \notin BatchRange THEN <<>>
  ELSE (IF batchResults[work[k]] = Null THEN <<>> ELSE <<batchResults[work[k]]>>)
       \o ValidImages(k + 1)

\* await Promise.all(batchPromises), results.push(...validImages), next i
SettleBatch ==
  /\ batchOpen
  /\ \A i \in BatchItems : task[i].pc = "done"
  /\ results' = results \o ValidImages(batchStart + 1)
  /\ batchStart' = batchStart + BatchSize
  /\ batchOpen' = FALSE
  /\ task' = [i \in Items |-> IF i \in BatchItems THEN Idle ELSE task[i]]
  /\ batchResults' = [i \in Items |-> IF i \in BatchItems THEN Pending ELSE batchResults[i]]
  /\ UNCHANGED <<config, limitedLinks, metadataCache, jobPc, work, images, failureLog, failures, faults>>
  /\ UNCHANGED runVars
  /\ UNCHANGED notJob

\* processImagesInParallel returns: images.push(...processedImages), then
\* getFailures() and, with failures and extractDetails, retryFailedImages
EndExtractPass ==
  /\ jobPc = "extract"
  /\ ~batchOpen
  /\ batchStart >= Len(work)
  /\ images' = images \o results
  /\ results' = <<>>
  /\ batchStart' = 0
  /\ IF Failed(failureLog) # {} /\ config.extractDetails
     THEN /\ jobPc' = "retry"
          /\ failures' = failureLog
          /\ work' \in OrdersOf(RetryInput(failureLog))
          /\ retryRound' = retryRound + 1
     ELSE /\ jobPc' = "finalize"
          /\ UNCHANGED <<failures, work, retryRound>>
  /\ UNCHANGED <<jobStatus, storedImages>>
  /\ UNCHANGED <<config, limitedLinks, metadataCache, batchOpen, task, batchResults, failureLog, faults>>
  /\ UNCHANGED notJob

\* retryFailedImages returns: images.push(...retriedImages)
EndRetryPass ==
  /\ jobPc = "retry"
  /\ ~batchOpen
  /\ batchStart >= Len(work)
  /\ images' = images \o results
  /\ results' = <<>>
  /\ jobPc' = "finalize"
  /\ UNCHANGED <<config, limitedLinks, metadataCache, work, batchStart, batchOpen, task, batchResults,
                 failureLog, failures, faults>>
  /\ UNCHANGED runVars
  /\ UNCHANGED notJob

\* db.insert(scrapedImages).values(imagesToInsert).onConflictDoNothing({target:
\* [jobId, imageId]}): the rows are inserted in the order of the list, and a
\* row whose image-id the job has already is skipped
RECURSIVE InsertRows(_, _)
InsertRows(rows, imgs) ==
  IF imgs = <<>> THEN rows
  ELSE InsertRows(IF \E k \in 1..Len(rows) : rows[k].imageId = Head(imgs).imageId
                  THEN rows ELSE Append(rows, Head(imgs)),
                  Tail(imgs))

\* storage.updateScrapeJob(jobId, {status: "completed", ..., images: cleanImages})
Finalize ==
  /\ jobPc = "finalize"
  /\ jobPc' = "completed"
  /\ jobStatus' = "completed"
  /\ storedImages' = InsertRows(storedImages, images)
  /\ UNCHANGED retryRound
  /\ UNCHANGED <<config, limitedLinks, metadataCache, work, batchStart, batchOpen, task, batchResults,
                 results, images, failureLog, failures, faults>>
  /\ UNCHANGED notJob

JobParked ==
  /\ config = [extractDetails |-> TRUE, concurrency |-> 1,
               maxRetryRounds |-> defaultMaxRetryRounds]
  /\ jobPc = "completed"
  /\ limitedLinks = <<>>
  /\ work = <<>>
  /\ batchStart = 0
  /\ batchOpen = FALSE
  /\ task = [i \in Items |-> Idle]
  /\ batchResults = [i \in Items |-> Pending]
  /\ results = <<>>
  /\ images = <<>>
  /\ failureLog = [i \in Items |-> NoFailure]
  /\ failures = [i \in Items |-> NoFailure]
  /\ metadataCache = {}
  /\ faults = 0
  /\ retryRound = 0
  /\ jobStatus = "completed"
  /\ storedImages = <<>>

\* new ProxyManager(proxies)
InitProxy ==
  /\ proxies \in {[i \in 1..n |-> i] : n \in 0..NumProxies}
  /\ currentIndex = 0
  /\ stats = [p \in Endpoints |-> InitialStats]
  /\ lastOp = [op |-> "new", p |-> NoProxy, ret |-> NoProxy, wasHealthy |-> TRUE]
  /\ rotation = 0
  /\ struckOut = [p \in Endpoints |-> FALSE]
  /\ cleanStreak = [p \in Endpoints |-> 0]
  /\ manualDown = [p \in Endpoints |-> FALSE]
  /\ JobParked
  /\ DiscoveryParked
  /\ PoolParked
  /\ RestParked

\* one step of a job whose navigations answer from `responses` and whose page
\* extractions come to one of `outcomes`
JobStep(responses, outcomes) ==
  \/ StartBatch
  \/ \E i \in Items, resp \in responses : Navigate(i, resp)
  \/ \E i \in Items, outcome \in outcomes : ExtractPage(i, outcome)
  \/ SettleBatch
  \/ EndExtractPass
  \/ EndRetryPass
  \/ Finalize

\* a job of a process whose metadataCache is empty
NextJob == JobStep(Responses, PageOutcomes)

\* One response and one page outcome for every way an extractImageData call can
\* end: navigated (200), turned away at once (404), given up after maxAttempts
\* (500); metadata parsed, nothing parsed but nothing logged ("identifiers"), a
\* failure logged after the navigation ("no metadata").
RecordResponses == {200, 404, 500}

RecordOutcomes == {"metadata", "identifiers", "no metadata"}

\* a job of a process whose metadataCache may hold payloads, and whose tasks may
\* throw
InitRecords ==
  /\ config \in [extractDetails : BOOLEAN, concurrency : 1..MaxConcurrency,
                  maxRetryRounds : {defaultMaxRetryRounds}]
  /\ jobPc = "extract"
  /\ limitedLinks \in {[k \in 1..n |-> k] : n \in 0..NumItems}
  /\ work = limitedLinks
  /\ batchStart = 0
  /\ batchOpen = FALSE
  /\ task = [i \in Items |-> Idle]
  /\ batchResults = [i \in Items |-> Pending]
  /\ results = <<>>
  /\ images = <<>>
  /\ failureLog = [i \in Items |-> NoFailure]
  /\ failures = [i \in Items |-> NoFailure]
  /\ metadataCache \in SUBSET Items
  /\ faults = 0
  /\ retryRound = 0
  /\ jobStatus = "scraping"
  /\ storedImages = <<>>
  /\ ProxyParked
  /\ DiscoveryParked
  /\ PoolParked
  /\ RestParked

NextRecords ==
  \/ JobStep(RecordResponses, RecordOutcomes)
  \/ \E i \in Items : Uncaught(i)

(***************************************************************************)
(* SmartFrameScraper: link discovery, scrape() lines 171-214 and autoScroll *)
(***************************************************************************)
\* page.url() of the collection page; the image-id and the customer-id / hash
\* of a link
Urls == {"u1", "u2"}

Ids == {"a", "b"}

Hashes == {"c1", "c2"}

\* what collectPageImageLinks returns for one element, without the url it
\* builds from the other two fields
Links == [imageId : Ids, hash : Hashes]

\* what collectPageImageLinks can return: smartframe-embed elements are pushed
\* in document order without a test for a repeated image-id
LinkLists == UNION {[1..n -> Links] : n \in 0..MaxLinks}

\* the lists of a collection page that shows no link
NoLinkLists == {<<>>}

\* page.$$('img').length
ImgCounts == 0..MaxImg

\* Math.round(a / b * 100) for a >= 0, b > 0
RoundPercent(a, b) == (200 * a + b) \div (2 * b)

\* discoveredLinks.has(id)
HasId(map, id) == \E k \in 1..Len(map) : map[k].imageId = id

\* discoveredLinks.get(id) of an id the map has
Entry(map, id) == map[CHOOSE k \in 1..Len(map) : map[k].imageId = id]

\* the keys of the map
IdsOf(map) == {map[k].imageId : k \in 1..Len(map)}

\* Upsert that adds an entry whatever the map holds
Upsert_Append(map, link) == Append(map, link)

\* discoveredLinks.set(link.imageId, link): a Map keeps the place of a key it has
Upsert(map, link) ==
  IF HasId(map, link.imageId)
  THEN [k \in 1..Len(map) |-> IF map[k].imageId = link.imageId THEN link ELSE map[k]]
  ELSE Append(map, link)

\* for (const link of links) discoveredLinks.set(link.imageId, link)
RECURSIVE SetAll(_, _)
SetAll(map, links) ==
  IF links = <<>> THEN map ELSE SetAll(Upsert(map, Head(links)), Tail(links))

\* AlreadyVisited with the test of the visited set taken out
AlreadyVisited_Off(key) == FALSE

\* the loop guard of autoScroll; currentPageKey = url + '-' + imageCount is the
\* pair, because the count is a number and holds no '-'
AlreadyVisited(key) == ~justClickedPagination /\ key \in visitedPages

\* setting `links` meets an id again (in the map or earlier in the list) with
\* a link that differs from the one held
Rediscovers(map, links) ==
  LET all == map \o links
  IN \E a, b \in 1..Len(all) :
       a < b /\ b > Len(map) /\ all[a].imageId = all[b].imageId /\ all[a] # all[b]

\* the page as it is after a step that can change it
PageAfter(u, n) ==
  /\ pageUrl' = u
  /\ pageImgs' = n
  /\ fixedPage' = (fixedPage /\ u = pageUrl /\ n = pageImgs)

\* autoScroll returns (the while test failed, or a break)
ExitLoop(why) ==
  /\ discPc' = "final"
  /\ exitBy' = why

\* const initialPageLinks = await this.collectPageImageLinks(page); set each
CollectInitial(links) ==
  /\ discPc = "initial"
  /\ discoveredLinks' = SetAll(discoveredLinks, links)
  /\ rediscovered' = (rediscovered \/ Rediscovers(discoveredLinks, links))
  /\ lastCollected' = links
  /\ discPc' = IF autoScroll THEN "head" ELSE "final"
  /\ UNCHANGED <<maxImages, autoScroll, pageUrl, pageImgs, imageCount, visitedPages,
                 justClickedPagination, round, progress, fixedPage, iterations, exitBy>>
  /\ stepDone' = "other"
  /\ callbackRan' = FALSE
  /\ UNCHANGED notDiscovery

\* the while test, the visited-page test, and the body up to onProgress
LoopHead ==
  /\ discPc = "head"
  /\ IF ~(maxImages = 0 \/ imageCount < maxImages)
     THEN /\ ExitLoop("limit")
          /\ UNCHANGED <<justClickedPagination, visitedPages, imageCount, progress,
                         iterations>>
     ELSE IF AlreadyVisited(<<pageUrl, imageCount>>)
          THEN /\ ExitLoop("visited")
               /\ UNCHANGED <<justClickedPagination, visitedPages, imageCount,
                              progress, iterations>>
          ELSE /\ justClickedPagination' = FALSE
               /\ visitedPages' = visitedPages \cup {<<pageUrl, imageCount>>}
               /\ imageCount' = pageImgs
               /\ progress' = IF maxImages = 0 THEN 0
                              ELSE RoundPercent(pageImgs, maxImages)
               /\ iterations' = IF fixedPage THEN MinOf(iterations + 1, IterCap)
                                ELSE iterations
               /\ discPc' = "click"
               /\ UNCHANGED exitBy
  /\ lastCollected' = <<>>
  /\ UNCHANGED <<maxImages, autoScroll, pageUrl, pageImgs, round, discoveredLinks,
                 fixedPage, rediscovered>>
  /\ stepDone' = "other"
  /\ callbackRan' = FALSE
  /\ UNCHANGED notDiscovery

\* ClickCounts that takes every click for a successful one
ClickCounts_Always(u, n) == TRUE

\* the two tests after a click: afterClickUrl !== beforeClickUrl, and
\* afterClickImageCount > beforeClickImageCount (which is imageCount)
ClickCounts(u, n) == u # pageUrl \/ n > imageCount

\* One of the two pagination blocks of the body: with a control found it is
\* clicked, the page is then at (u, n), and the click counts when the URL
\* changed or the img count is above imageCount; then onPageChange collects.
PaginationClick(next, button, threw, u, n, links) ==
  /\ IF button THEN PageAfter(u, n)
     ELSE /\ u = pageUrl /\ n = pageImgs /\ ~threw
          /\ UNCHANGED <<pageUrl, pageImgs, fixedPage>>
  /\ IF button /\ ~threw /\ ClickCounts(u, n)
     THEN /\ justClickedPagination' = TRUE
          /\ discoveredLinks' = SetAll(discoveredLinks, links)
          /\ rediscovered' = (rediscovered \/ Rediscovers(discoveredLinks, links))
          /\ callbackRan' = TRUE
          /\ discPc' = "head"
     ELSE /\ links = <<>>
          /\ discPc' = next
          /\ callbackRan' = FALSE
          /\ UNCHANGED <<justClickedPagination, discoveredLinks, rediscovered>>
  /\ stepDone' = IF ~button \/ threw THEN "other"
                 ELSE IF u # pageUrl THEN "page change"
                 ELSE IF n > imageCount THEN "click progress"
                 ELSE IF n < imageCount THEN "other"
                 ELSE IF next = "scroll" THEN "idle click"
                 ELSE "idle click at bottom"
  /\ lastCollected' = links
  /\ UNCHANGED <<maxImages, autoScroll, imageCount, visitedPages, round, progress,
                 iterations, exitBy>>
  /\ UNCHANGED notDiscovery

\* the pagination block before the scroll
ClickBeforeScroll(button, threw, u, n, links) ==
  /\ discPc = "click"
  /\ PaginationClick("scroll", button, threw, u, n, links)

\* window.scrollTo(0, scrollHeight), the wait, and the height comparison; the
\* page shows n img elements afterwards, another number only if it grew
ScrollToBottom(grew, n) ==
  /\ discPc = "scroll"
  /\ ~grew => n = pageImgs
  /\ PageAfter(pageUrl, n)
  /\ discPc' = IF grew THEN "head" ELSE "clickAtBottom"
  /\ lastCollected' = <<>>
  /\ UNCHANGED <<maxImages, autoScroll, imageCount, visitedPages,
                 justClickedPagination, round, discoveredLinks, progress,
                 iterations, exitBy, rediscovered>>
  /\ stepDone' = IF grew THEN "scroll growth" ELSE "other"
  /\ callbackRan' = FALSE
  /\ UNCHANGED notDiscovery

\* the pagination block after a scroll that left the height unchanged
ClickAtBottom(button, threw, u, n, links) ==
  /\ discPc = "clickAtBottom"
  /\ PaginationClick("patience", button, threw, u, n, links)

\* a patience loop of one round
LastRound_First(r) == TRUE

\* `round <= patienceRounds` fails after this round
LastRound(r) == r = patienceRounds

\* one round of the patience loop
PatienceRound(grew, n) ==
  /\ discPc = "patience"
  /\ ~grew => n = pageImgs
  /\ lastCollected' = <<>>
  /\ PageAfter(pageUrl, n)
  /\ IF grew
     THEN /\ discPc' = "head"
          /\ round' = 1
          /\ UNCHANGED exitBy
     ELSE IF LastRound(round)
          THEN /\ ExitLoop("patience")
               /\ round' = 1
          ELSE /\ round' = round + 1
               /\ UNCHANGED <<discPc, exitBy>>
  /\ UNCHANGED <<maxImages, autoScroll, imageCount, visitedPages,
                 justClickedPagination, discoveredLinks, progress, iterations,
                 rediscovered>>
  /\ stepDone' = IF grew THEN "patience growth" ELSE "other"
  /\ callbackRan' = FALSE
  /\ UNCHANGED notDiscovery

\* const finalPageLinks = await this.collectPageImageLinks(page); set each
CollectFinal(links) ==
  /\ discPc = "final"
  /\ discoveredLinks' = SetAll(discoveredLinks, links)
  /\ rediscovered' = (rediscovered \/ Rediscovers(discoveredLinks, links))
  /\ lastCollected' = links
  /\ discPc' = "done"
  /\ UNCHANGED <<maxImages, autoScroll, pageUrl, pageImgs, imageCount, visitedPages,
                 justClickedPagination, round, progress, fixedPage, iterations, exitBy>>
  /\ stepDone' = "other"
  /\ callbackRan' = FALSE
  /\ UNCHANGED notDiscovery

\* scrape() after the entry page has loaded: an empty Map, autoScroll's locals
InitDiscovery ==
  /\ maxImages \in 0..MaxImg
  /\ autoScroll \in BOOLEAN
  /\ discPc = "initial"
  /\ pageUrl = "u1"
  /\ pageImgs \in ImgCounts
  /\ imageCount = 0
  /\ visitedPages = {}
  /\ justClickedPagination = FALSE
  /\ round = 1
  /\ discoveredLinks = <<>>
  /\ progress = 0
  /\ fixedPage = TRUE
  /\ iterations = 0
  /\ exitBy = "none"
  /\ rediscovered = FALSE
  /\ lastCollected = <<>>
  /\ stepDone = "other"
  /\ callbackRan = FALSE
  /\ ProxyParked
  /\ JobParked
  /\ PoolParked
  /\ RestParked

\* a run whose collection page never shows an img element
InitCollect ==
  /\ maxImages \in 0..MaxImg
  /\ autoScroll \in BOOLEAN
  /\ discPc = "initial"
  /\ pageUrl = "u1"
  /\ pageImgs = 0
  /\ imageCount = 0
  /\ visitedPages = {}
  /\ justClickedPagination = FALSE
  /\ round = 1
  /\ discoveredLinks = <<>>
  /\ progress = 0
  /\ fixedPage = TRUE
  /\ iterations = 0
  /\ exitBy = "none"
  /\ rediscovered = FALSE
  /\ lastCollected = <<>>
  /\ stepDone = "other"
  /\ callbackRan = FALSE
  /\ ProxyParked
  /\ JobParked
  /\ PoolParked
  /\ RestParked

\* the steps of a discovery whose page returns lists of `lists` and shows
\* numbers of img elements of `counts`
DiscoveryStep(lists, counts) ==
  \/ \E links \in lists : CollectInitial(links)
  \/ LoopHead
  \/ \E button, threw \in BOOLEAN, u \in Urls, n \in counts, links \in lists :
       ClickBeforeScroll(button, threw, u, n, links)
  \/ \E grew \in BOOLEAN, n \in counts : ScrollToBottom(grew, n)
  \/ \E button, threw \in BOOLEAN, u \in Urls, n \in counts, links \in lists :
       ClickAtBottom(button, threw, u, n, links)
  \/ \E grew \in BOOLEAN, n \in counts : PatienceRound(grew, n)
  \/ \E links \in lists : CollectFinal(links)

\* pages of any img count that show no link
NextDiscovery == DiscoveryStep(NoLinkLists, ImgCounts)

\* pages without img elements that show any links
NextCollect == DiscoveryStep(LinkLists, {0})

(***************************************************************************)
(* The worker pages of processImagesInParallel (lines 376-461) and of      *)
(* retryFailedImages (lines 1063-1166): opened before the try block, used  *)
(* by the batches inside it, closed in its finally                         *)
(***************************************************************************)
\* batchSize
PoolBatchSize == poolConcurrency

\* linkData.slice(i, i + batchSize), as positions of the list
PoolBatch ==
  {l \in Items : poolI < l /\ l <= MinOf(poolI + PoolBatchSize, linkCount)}

\* the batch a link belongs to, counted from 0
BatchOf(l) == (l - 1) \div PoolBatchSize

\* WorkerPageOf with every task of a batch given the first page
WorkerPageOf_First(index) == 1

\* workerPages[index % concurrency], for the index of a link in its batch
WorkerPageOf(index) == (index % poolConcurrency) + 1

\* BatchSettled as Promise.race would have it: one settled task is enough
BatchSettled_Race == \E l \in PoolBatch : linkState[l] = "settled"

\* await Promise.all(batchPromises) can go on: every task of the batch has
\* settled (no task rejects, each has its own catch)
BatchSettled == \A l \in PoolBatch : linkState[l] = "settled"

\* how one round of the page-opening loop can end
OpenOutcomes == {"ok", "newPage throws", "setup throws"}

InitPool ==
  /\ poolPass \in {"extract", "retry"}
  /\ poolConcurrency \in 1..MaxConcurrency
  /\ poolPass = "retry" => poolConcurrency = retryConcurrency
  /\ linkCount \in 0..NumItems
  /\ poolPass = "retry" => linkCount > 0
  /\ poolPc = "open"
  /\ pages = [k \in PageIds |-> "none"]
  /\ pushed = 0
  /\ poolI = 0
  /\ linkState = [l \in Items |-> "waiting"]
  /\ linkPage = [l \in Items |-> 0]
  /\ attemptedCount = 0
  /\ poolError = "none"
  /\ progressCalls = 0
  /\ progressLog = <<>>
  /\ ProxyParked
  /\ JobParked
  /\ DiscoveryParked
  /\ RestParked

\* One round of `for (let i = 0; i < concurrency; i++)`: newPage, the
\* anti-detection setup, workerPages.push.  The loop stands before the try
\* block: an error of newPage or of the setup leaves the function at once.
OpenWorker(outcome) ==
  /\ poolPc = "open"
  /\ pushed < poolConcurrency
  /\ LET k == Cardinality({q \in PageIds : pages[q] # "none"}) + 1
     IN CASE outcome = "newPage throws" ->
               /\ poolPc' = "threw"
               /\ poolError' = "open"
               /\ UNCHANGED <<pages, pushed>>
          [] outcome = "setup throws" ->
               /\ pages' = [pages EXCEPT ![k] = "open"]
               /\ poolPc' = "threw"
               /\ poolError' = "open"
               /\ UNCHANGED pushed
          [] OTHER ->
               /\ pages' = [pages EXCEPT ![k] = "open"]
               /\ pushed' = pushed + 1
               /\ poolPc' = IF pushed + 1 = poolConcurrency THEN "loop" ELSE "open"
               /\ UNCHANGED poolError
  /\ UNCHANGED <<poolPass, poolConcurrency, linkCount, poolI, linkState, linkPage,
                 attemptedCount, progressCalls,
                 progressLog>>
  /\ UNCHANGED notPool

\* batch.map(async (link, index) => ...): every task of the batch is started
\* with its page
StartPoolBatch ==
  /\ poolPc = "loop"
  /\ poolI < linkCount
  /\ poolPc' = "batch"
  /\ linkState' = [l \in Items |-> IF l \in PoolBatch THEN "running" ELSE linkState[l]]
  /\ linkPage' = [l \in Items |->
                    IF l \in PoolBatch THEN WorkerPageOf(l - poolI - 1) ELSE linkPage[l]]
  /\ UNCHANGED <<poolPass, poolConcurrency, linkCount, pages, pushed, poolI,
                 attemptedCount, poolError, progressCalls,
                 progressLog>>
  /\ UNCHANGED notPool

\* the promise of one task resolves, to an image or to null
SettleTask(l) ==
  /\ linkState[l] = "running"
  /\ linkState' = [linkState EXCEPT ![l] = "settled"]
  /\ UNCHANGED <<poolPass, poolConcurrency, linkCount, poolPc, pages, pushed, poolI,
                 linkPage, attemptedCount, poolError, progressCalls, progressLog>>
  /\ UNCHANGED notPool

\* Promise.all resolves: results.push, attemptedCount += batch.length; the
\* extraction pass goes on to onProgress, the retry pass to its next batch
AwaitBatch ==
  /\ poolPc = "batch"
  /\ BatchSettled
  /\ attemptedCount' = attemptedCount + Cardinality(PoolBatch)
  /\ IF poolPass = "extract"
     THEN /\ poolPc' = "progress"
          /\ UNCHANGED poolI
     ELSE /\ poolPc' = "loop"
          /\ poolI' = poolI + PoolBatchSize
  /\ UNCHANGED <<poolPass, poolConcurrency, linkCount, pages, pushed, linkState,
                 linkPage, poolError, progressCalls,
                 progressLog>>
  /\ UNCHANGED notPool

\* onProgress called with the size of the batch
ProgressArg_OfBatch == Cardinality(PoolBatch)

\* the second argument of onProgress([...results], attemptedCount)
ProgressArg == attemptedCount

\* what the callback of scrape() writes for an attempted count:
\* Math.round((attemptedCount / limitedLinks.length) * 100)
ProgressUpdate(attempted) ==
  [attempted |-> attempted, progress |-> RoundPercent(attempted, linkCount)]

\* await onProgress([...results], attemptedCount): the callback writes to the
\* storage and calls callbacks.onProgress, and either may throw (the first
\* before the row is written, the second after)
Progress(throws) ==
  /\ poolPc = "progress"
  /\ IF throws
     THEN /\ poolPc' = "close"
          /\ poolError' = "progress"
          /\ \/ progressLog' = progressLog
             \/ progressLog' = Append(progressLog, ProgressUpdate(ProgressArg))
          /\ UNCHANGED <<poolI, progressCalls>>
     ELSE /\ poolPc' = "loop"
          /\ poolI' = poolI + PoolBatchSize
          /\ progressCalls' = progressCalls + 1
          /\ progressLog' = Append(progressLog, ProgressUpdate(ProgressArg))
          /\ UNCHANGED poolError
  /\ UNCHANGED <<poolPass, poolConcurrency, linkCount, pages, pushed, linkState,
                 linkPage, attemptedCount>>
  /\ UNCHANGED notPool

\* the batch loop ends
EndBatches ==
  /\ poolPc = "loop"
  /\ poolI >= linkCount
  /\ poolPc' = "close"
  /\ UNCHANGED <<poolPass, poolConcurrency, linkCount, pages, pushed, poolI, linkState,
                 linkPage, attemptedCount, poolError, progressCalls, progressLog>>
  /\ UNCHANGED notPool

\* finally: await Promise.all(workerPages.map(page => page.close().catch(() => {})));
\* the pages of `failing` reject their close
ClosePages(failing) ==
  /\ poolPc = "close"
  /\ pages' = [k \in PageIds |->
                 IF k <= pushed
                 THEN IF k \in failing THEN "close failed" ELSE "closed"
                 ELSE pages[k]]
  /\ poolPc' = IF poolError = "none" THEN "returned" ELSE "threw"
  /\ UNCHANGED <<poolPass, poolConcurrency, linkCount, pushed, poolI, linkState,
                 linkPage, attemptedCount, poolError, progressCalls, progressLog>>
  /\ UNCHANGED notPool

NextPool ==
  \/ \E outcome \in OpenOutcomes : OpenWorker(outcome)
  \/ StartPoolBatch
  \/ \E l \in Items : SettleTask(l)
  \/ AwaitBatch
  \/ \E throws \in BOOLEAN : Progress(throws)
  \/ EndBatches
  \/ \E failing \in SUBSET PageIds : ClosePages(failing)

(***************************************************************************)
(* SmartFrameScraper.scrape: launch, entry navigation, catch and finally   *)
(***************************************************************************)

\* the messages of the errors page.goto rejects with
NavErrors == {"Navigation timeout", "net::ERR_CONNECTION_RESET"}

\* the messages of the other errors of the model
LaunchError == "Failed to launch the browser process"

\* the catch of the navigation loop without `if (attempts === maxAttempts) throw error`
NavGivesUp_Never(attempts) == FALSE

\* line 154: if (attempts === maxAttempts) throw error
NavGivesUp(attempts) == attempts = entryMaxAttempts

\* line 155: setTimeout(resolve, 2000 * attempts)
EntryBackoff(attempts) == entryBackoffMs * attempts

\* scrape() is called for a job whose row was created with status pending
InitEntry ==
  /\ entryPc = "new"
  /\ navAttempts = 0
  /\ navigationSuccess = FALSE
  /\ entryDelay = 0
  /\ caught = NoError
  /\ onErrorSupplied \in BOOLEAN
  /\ onErrorCalls = <<>>
  /\ thrown = NoError
  /\ session = "none"
  /\ rowStatus = "pending"
  /\ rowError = NoError
  /\ started = {}
  /\ ProxyParked
  /\ JobParked
  /\ DiscoveryParked
  /\ PoolParked
  /\ VpnParked
  /\ HealthParked
  /\ NormParked
  /\ TextParked

\* await this.initialize(); const page = await this.browser!.newPage(): both
\* stand before the try block
Launch(ok) ==
  /\ entryPc = "new"
  /\ IF ok
     THEN /\ session' = "open"
          /\ entryPc' = "start"
          /\ UNCHANGED thrown
     ELSE /\ thrown' = LaunchError
          /\ entryPc' = "threw"
          /\ UNCHANGED session
  /\ UNCHANGED <<navAttempts, navigationSuccess, entryDelay, caught, onErrorSupplied,
                 onErrorCalls, rowStatus, rowError, started>>
  /\ UNCHANGED notEntry

\* storage.updateScrapeJob(jobId, {status: "scraping"}) and the page setup
StartScrape ==
  /\ entryPc = "start"
  /\ rowStatus' = "scraping"
  /\ entryPc' = "navigate"
  /\ UNCHANGED <<navAttempts, navigationSuccess, entryDelay, caught, onErrorSupplied,
                 onErrorCalls, thrown, session, rowError, started>>
  /\ UNCHANGED notEntry

\* one round of `while (attempts < maxAttempts && !navigationSuccess)`:
\* attempts++, page.goto, and on an error the throw or the backoff
EntryGoto(outcome) ==
  /\ entryPc = "navigate"
  /\ navAttempts < entryMaxAttempts /\ ~navigationSuccess
  /\ navAttempts' = navAttempts + 1
  /\ IF outcome = "ok"
     THEN /\ navigationSuccess' = TRUE
          /\ UNCHANGED <<caught, entryDelay, entryPc>>
     ELSE /\ UNCHANGED navigationSuccess
          /\ IF NavGivesUp(navAttempts')
             THEN /\ caught' = outcome
                  /\ entryPc' = "catch"
                  /\ UNCHANGED entryDelay
             ELSE /\ entryDelay' = EntryBackoff(navAttempts')
                  /\ UNCHANGED <<caught, entryPc>>
  /\ UNCHANGED <<onErrorSupplied, onErrorCalls, thrown, session, rowStatus, rowError, started>>
  /\ UNCHANGED notEntry

\* the while loop ends; waitForSelector, extractThumbnailsFromSearch, the
\* initial collection, autoScroll and the final collection
Discover(ok) ==
  /\ entryPc = "navigate"
  /\ ~(navAttempts < entryMaxAttempts /\ ~navigationSuccess)
  /\ started' = started \cup {"discovery"}
  /\ IF ok
     THEN entryPc' = "extract" /\ UNCHANGED caught
     ELSE entryPc' = "catch" /\ caught' = "discovery failed"
  /\ UNCHANGED <<navAttempts, navigationSuccess, entryDelay, onErrorSupplied, onErrorCalls,
                 thrown, session, rowStatus, rowError>>
  /\ UNCHANGED notEntry

\* processImagesInParallel and retryFailedImages
Extract(ok) ==
  /\ entryPc = "extract"
  /\ started' = started \cup {"extraction"}
  /\ IF ok
     THEN entryPc' = "complete" /\ UNCHANGED caught
     ELSE entryPc' = "catch" /\ caught' = "extraction failed"
  /\ UNCHANGED <<navAttempts, navigationSuccess, entryDelay, onErrorSupplied, onErrorCalls,
                 thrown, session, rowStatus, rowError>>
  /\ UNCHANGED notEntry

\* storage.updateScrapeJob(jobId, {status: "completed", ...})
Complete ==
  /\ entryPc = "complete"
  /\ rowStatus' = "completed"
  /\ entryPc' = "epilogue"
  /\ UNCHANGED <<navAttempts, navigationSuccess, entryDelay, caught, onErrorSupplied,
                 onErrorCalls, thrown, session, rowError, started>>
  /\ UNCHANGED notEntry

\* writeLogFile, the summary, callbacks.onComplete(images) and `return images`
Epilogue(ok) ==
  /\ entryPc = "epilogue"
  /\ IF ok
     THEN entryPc' = "finally" /\ UNCHANGED caught
     ELSE entryPc' = "catch" /\ caught' = "callback failed"
  /\ UNCHANGED <<navAttempts, navigationSuccess, entryDelay, onErrorSupplied, onErrorCalls,
                 thrown, session, rowStatus, rowError, started>>
  /\ UNCHANGED notEntry

\* catch (error): the row gets status error and the message, onError is
\* called if it is given (every error of the model is an Error), throw error
Catch ==
  /\ entryPc = "catch"
  /\ rowStatus' = "error"
  /\ rowError' = caught
  /\ onErrorCalls' = IF onErrorSupplied THEN Append(onErrorCalls, caught) ELSE onErrorCalls
  /\ thrown' = caught
  /\ entryPc' = "finally"
  /\ UNCHANGED <<navAttempts, navigationSuccess, entryDelay, caught, onErrorSupplied,
                 session, started>>
  /\ UNCHANGED notEntry

\* finally { await page.close() }
Finally ==
  /\ entryPc = "finally"
  /\ session' = "closed"
  /\ entryPc' = IF thrown = NoError THEN "returned" ELSE "threw"
  /\ UNCHANGED <<navAttempts, navigationSuccess, entryDelay, caught, onErrorSupplied,
                 onErrorCalls, thrown, rowStatus, rowError, started>>
  /\ UNCHANGED notEntry

NextEntry ==
  \/ \E ok \in BOOLEAN : Launch(ok)
  \/ StartScrape
  \/ \E outcome \in {"ok"} \cup NavErrors : EntryGoto(outcome)
  \/ \E ok \in BOOLEAN : Discover(ok)
  \/ \E ok \in BOOLEAN : Extract(ok)
  \/ Complete
  \/ \E ok \in BOOLEAN : Epilogue(ok)
  \/ Catch
  \/ Finally

(***************************************************************************)
(* ProxyManager.performHealthChecks step by step on Node's event loop: a   *)
(* task (timer or I/O callback) starts only when no promise reaction is    *)
(* queued, and the queued reactions run in order                           *)
(***************************************************************************)

\* the event loop taking the next task while promise reactions are queued, as
\* it would if checkProxyHealth awaited a request of its own
TaskMayStart_Anytime(queue) == TRUE

\* the microtask queue is drained after every task, before the next one
TaskMayStart(queue) == queue = <<>>

\* the ages checkProxyHealth can find for stats s: more than an hour when
\* lastUsed is null, either when it is set
Ages(s) == IF s.lastUsed THEN BOOLEAN ELSE {TRUE}

\* a manager whose endpoints have been used or not, with the interval timer set
InitHealth ==
  /\ proxies \in {[i \in 1..n |-> i] : n \in 1..NumProxies}
  /\ currentIndex = 0
  /\ stats \in [Endpoints -> {[InitialStats EXCEPT !.lastUsed = u] : u \in BOOLEAN}]
  /\ \A p \in Endpoints \ Pool : stats[p] = InitialStats
  /\ lastOp = [op |-> "new", p |-> NoProxy, ret |-> NoProxy, wasHealthy |-> TRUE]
  /\ rotation = 0
  /\ struckOut = [p \in Endpoints |-> FALSE]
  /\ cleanStreak = [p \in Endpoints |-> 0]
  /\ manualDown = [p \in Endpoints |-> FALSE]
  /\ microtasks = <<>>
  /\ healthAt = 0
  /\ healthVerdict = TRUE
  /\ readStats = InitialStats
  /\ JobParked
  /\ DiscoveryParked
  /\ PoolParked
  /\ EntryParked
  /\ VpnParked
  /\ NormParked
  /\ TextParked

\* the call checkProxyHealth(proxies[k]) up to the await of its promise: the
\* function has no await of its own, so its body has run when it returns
AwaitCheck(k, stale) ==
  LET p == proxies[k]
      c == CheckProxyHealth(stats[p], stale)
  IN /\ stats' = [stats EXCEPT ![p] = c.stats]
     /\ readStats' = c.stats
     /\ healthVerdict' = c.healthy
     /\ healthAt' = k

\* the interval timer fires: performHealthChecks runs up to its first await
HealthTimer(stale) ==
  /\ TaskMayStart(microtasks)
  /\ healthAt = 0
  /\ stale \in Ages(stats[proxies[1]])
  /\ AwaitCheck(1, stale)
  /\ microtasks' = Append(microtasks, "health")
  /\ UNCHANGED <<proxies, currentIndex, lastOp, rotation, struckOut, cleanStreak, manualDown>>
  /\ UNCHANGED notHealth

\* the reaction of performHealthChecks: setProxyHealth(proxy, isHealthy), then
\* the next round of the loop up to its await, or the end of the pass
HealthResume(stale) ==
  /\ microtasks # <<>> /\ Head(microtasks) = "health"
  /\ LET p == proxies[healthAt]
         written == [stats EXCEPT ![p] = HealthStats(stats[p], healthVerdict)]
     IN IF healthAt < Len(proxies)
        THEN /\ stale \in Ages(written[proxies[healthAt + 1]])
             /\ LET q == proxies[healthAt + 1]
                    c == CheckProxyHealth(written[q], stale)
                IN /\ stats' = [written EXCEPT ![q] = c.stats]
                   /\ readStats' = c.stats
                   /\ healthVerdict' = c.healthy
                   /\ healthAt' = healthAt + 1
             /\ microtasks' = Append(Tail(microtasks), "health")
        ELSE /\ stale
             /\ stats' = written
             /\ healthAt' = 0
             /\ microtasks' = Tail(microtasks)
             /\ UNCHANGED <<readStats, healthVerdict>>
  /\ UNCHANGED <<proxies, currentIndex, lastOp, rotation, struckOut, cleanStreak, manualDown>>
  /\ UNCHANGED notHealth

\* an I/O callback of the callers: it records the outcome of a request itself
\* (failed or not), and resolves the promises n functions are awaiting
CallerTask(p, failed, n) ==
  /\ p \in Pool
  /\ TaskMayStart(microtasks)
  /\ failed => stats[p].failedRequests < MaxFailCount
  /\ stats' = [stats EXCEPT ![p] = IF failed THEN FailureStats(stats[p])
                                   ELSE SuccessStats(stats[p])]
  /\ microtasks' = microtasks \o [k \in 1..n |-> "caller"]
  /\ UNCHANGED <<healthAt, healthVerdict, readStats>>
  /\ UNCHANGED <<proxies, currentIndex, lastOp, rotation, struckOut, cleanStreak, manualDown>>
  /\ UNCHANGED notHealth

\* the reaction of a caller: recordFailure(p) or recordSuccess(p)
CallerResume(p, failed) ==
  /\ p \in Pool
  /\ microtasks # <<>> /\ Head(microtasks) = "caller"
  /\ failed => stats[p].failedRequests < MaxFailCount
  /\ stats' = [stats EXCEPT ![p] = IF failed THEN FailureStats(stats[p])
                                   ELSE SuccessStats(stats[p])]
  /\ microtasks' = Tail(microtasks)
  /\ UNCHANGED <<healthAt, healthVerdict, readStats>>
  /\ UNCHANGED <<proxies, currentIndex, lastOp, rotation, struckOut, cleanStreak, manualDown>>
  /\ UNCHANGED notHealth

NextHealth ==
  \/ \E stale \in BOOLEAN : HealthTimer(stale)
  \/ \E stale \in BOOLEAN : HealthResume(stale)
  \/ \E p \in Endpoints, failed \in BOOLEAN, n \in 0..MaxPending : CallerTask(p, failed, n)
  \/ \E p \in Endpoints, failed \in BOOLEAN : CallerResume(p, failed)

(***************************************************************************)
(* SmartFrameScraper.parseMetadata (lines 1176-1537), block by block.  A   *)
(* value is written as the source it came from; photographer, city and     *)
(* date stand for the fields that are filled the same way (imageSize,      *)
(* fileSize, featuring, contentPartner, comments).                         *)
(***************************************************************************)

\* the value the n-th piece of source src gives
Value(src, n) == [src |-> src, n |-> n]

TagLists == {<<"t1">>, <<"t2">>, <<"t2", "t1">>}

\* a || b
Or(a, b) == IF a # Absent THEN a ELSE b

\* the elements of list b that are not in list a, in b's order
RECURSIVE NewIn(_, _)
NewIn(a, b) ==
  IF b = <<>> THEN <<>>
  ELSE IF \E k \in 1..Len(a) : a[k] = Head(b)
       THEN NewIn(a, Tail(b))
       ELSE <<Head(b)>> \o NewIn(Append(a, Head(b)), Tail(b))

\* [...new Set([...a, ...b])]
MergeTags(a, b) == NewIn(<<>>, a) \o NewIn(a, b)

\* the fields that held a value in `old` and hold another one in `new`
Altered(old, new) ==
  {f \in ScalarFields : old[f] # Absent /\ new[f] # old[f]}
  \cup (IF old.tags # <<>> /\ new.tags # old.tags THEN {"tags"} ELSE {})

\* the labels of the switch, one of each case that sets a field of the model;
\* "credit (c)" is a photographer label whose value holds a copyright sign
LabelKinds == {"photographer", "credit (c)", "city", "country", "date", "title",
               "tags", "copyright"}

\* one case of the switch over a label with value v (tags: the list ts)
AfterLabel(r, kind, v, ts) ==
  CASE kind = "photographer" ->
         [r EXCEPT !.photographer = Or(@, v), !.authors = Or(@, v)]
    [] kind = "credit (c)" ->
         [r EXCEPT !.photographer = Or(@, v), !.authors = Or(@, v),
                   !.copyright = Or(@, v)]
    [] kind = "city" -> [r EXCEPT !.city = Or(@, v)]
    [] kind = "country" -> [r EXCEPT !.country = Or(@, v)]
    [] kind = "date" ->
         IF r.date = Absent THEN [r EXCEPT !.date = v, !.dateTaken = v] ELSE r
    [] kind = "title" -> [r EXCEPT !.title = Or(@, v), !.matchEvent = Or(@, v)]
    [] kind = "tags" -> [r EXCEPT !.tags = ts]
    [] kind = "copyright" -> [r EXCEPT !.copyright = Or(@, v)]

\* the places a caption can name: none, a city, a city and a country
Places == {"none", "city", "city, country"}

\* a location of the caption filling city and country
AfterPlace(r, place, v) ==
  CASE place = "none" -> r
    [] place = "city" -> [r EXCEPT !.city = Or(@, v)]
    [] place = "city, country" -> [r EXCEPT !.city = Or(@, v), !.country = Or(@, v)]

\* strategies 1 to 4 over the caption text
AfterCaption(r, credit, line, where, when) ==
  LET r1 == IF credit
            THEN [r EXCEPT !.photographer = Or(@, Value("credit", 1)),
                           !.authors = Or(@, Value("credit", 1)),
                           !.copyright = Or(@, Value("credit", 1))]
            ELSE r
      r2 == IF line # "none" /\ r1.date = Absent
            THEN [AfterPlace(r1, line, Value("line", 1))
                    EXCEPT !.date = Value("line", 1), !.dateTaken = Value("line", 1)]
            ELSE r1
      r3 == AfterPlace(r2, where, Value("where", 1))
  IN IF when /\ r3.date = Absent
     THEN [r3 EXCEPT !.date = Value("when", 1), !.dateTaken = Value("when", 1)]
     ELSE r3

\* strategy 5 and the fallback after it
AfterTitleLine(r, found) ==
  LET r1 == IF r.title = Absent /\ found
            THEN [r EXCEPT !.title = Value("title line", 1)] ELSE r
  IN IF r1.title = Absent
     THEN [r1 EXCEPT !.title = Or(r1.matchEvent, Value("captionRaw", 1))]
     ELSE r1

\* the fields of rawData.nextData the model reads; a blob with a photographer
\* holds a copyright too, one with a city holds a country too
JsonFields == {"photographer", "city", "date", "title"}

\* the value nextData gives for field f when it holds the fields `has`
Json(has, f) == IF f \in has THEN Value("json", 1) ELSE Absent

\* the block `if (rawData.nextData)`, and the fallback for dateTaken
AfterJson(r, has, ts) ==
  LET photographer == Or(r.photographer, Json(has, "photographer"))
      date == Or(r.date, Json(has, "date"))
      title == Or(r.title, Json(has, "title"))
  IN [photographer |-> photographer,
      authors |-> Or(r.authors, photographer),
      copyright |-> Or(r.copyright, Json(has, "photographer")),
      city |-> Or(r.city, Json(has, "city")),
      country |-> Or(r.country, Json(has, "city")),
      date |-> date,
      dateTaken |-> IF r.date = Absent THEN date ELSE Or(r.dateTaken, date),
      title |-> title,
      matchEvent |-> Or(r.matchEvent, title),
      tags |-> IF ts = <<>> THEN r.tags ELSE MergeTags(r.tags, ts)]

\* parseMetadata(rawData) down to the loop over labelValues: result.title is
\* the cleaned page title, result.tags the keywords
InitNorm ==
  /\ normPc = "labels"
  /\ \E title \in {Absent, Value("page", 1)}, keywords \in {<<>>, <<"t1">>} :
       result = [EmptyResult EXCEPT !.title = title, !.tags = keywords]
  /\ hasCaption \in BOOLEAN
  /\ labelsLeft \in 0..MaxLabels
  /\ source = "raw"
  /\ altered = {}
  /\ ProxyParked
  /\ JobParked
  /\ DiscoveryParked
  /\ PoolParked
  /\ EntryParked
  /\ VpnParked
  /\ HealthParked
  /\ TextParked

\* one round of `for (const item of rawData.labelValues || [])`
ApplyLabel(kind, ts) ==
  /\ normPc = "labels"
  /\ labelsLeft > 0
  /\ labelsLeft' = labelsLeft - 1
  /\ result' = AfterLabel(result, kind, Value("label", labelsLeft), ts)
  /\ source' = "labels"
  /\ altered' = Altered(result, result')
  /\ UNCHANGED <<normPc, hasCaption>>
  /\ UNCHANGED notNorm

\* the two lines after the loop: result.title || title, and matchEvent
EndLabels ==
  /\ normPc = "labels"
  /\ labelsLeft = 0
  /\ result' = [result EXCEPT !.matchEvent =
                   Or(@, Or(result.title,
                            IF hasCaption THEN Value("captionRaw", 1) ELSE Absent))]
  /\ normPc' = IF hasCaption THEN "caption" ELSE "json"
  /\ source' = "raw"
  /\ altered' = Altered(result, result')
  /\ UNCHANGED <<hasCaption, labelsLeft>>
  /\ UNCHANGED notNorm

\* `if (captionText)`: the markers and the location-date line
ApplyCaption(credit, line, where, when) ==
  /\ normPc = "caption"
  /\ result' = AfterCaption(result, credit, line, where, when)
  /\ normPc' = "title line"
  /\ source' = "caption"
  /\ altered' = Altered(result, result')
  /\ UNCHANGED <<hasCaption, labelsLeft>>
  /\ UNCHANGED notNorm

\* the title from the first descriptive line of the caption
ApplyTitleLine(found) ==
  /\ normPc = "title line"
  /\ result' = AfterTitleLine(result, found)
  /\ normPc' = "json"
  /\ source' = "title line"
  /\ altered' = Altered(result, result')
  /\ UNCHANGED <<hasCaption, labelsLeft>>
  /\ UNCHANGED notNorm

\* `if (rawData.nextData)`; without nextData the block is skipped
ApplyJson(present, has, ts) ==
  /\ normPc = "json"
  /\ ~present => has = {} /\ ts = <<>>
  /\ result' = AfterJson(result, has, ts)
  /\ normPc' = "done"
  /\ source' = IF present THEN "json" ELSE "raw"
  /\ altered' = Altered(result, result')
  /\ UNCHANGED <<hasCaption, labelsLeft>>
  /\ UNCHANGED notNorm

NextNorm ==
  \/ \E kind \in LabelKinds, ts \in TagLists : ApplyLabel(kind, ts)
  \/ EndLabels
  \/ \E credit, when \in BOOLEAN, line, where \in Places :
       ApplyCaption(credit, line, where, when)
  \/ \E found \in BOOLEAN : ApplyTitleLine(found)
  \/ \E present \in BOOLEAN, has \in SUBSET JsonFields, ts \in {<<>>} \cup TagLists :
       ApplyJson(present, has, ts)

(***************************************************************************)
(* SmartFrameScraper.cleanTextHelper (lines 1014-1049).  A text is the     *)
(* sequence of the pieces it is written with; the pieces are chosen so     *)
(* that "script" and "copy link" can be spelled, and only by two pieces    *)
(* that stand side by side.                                                *)
(***************************************************************************)

\* the pieces: the two angle brackets, the halves of the injection marker
\* "script" and of the UI string "copy link", a line break, and a run of 100
\* letters
Pieces == {"<", ">", "scr", "ipt", "copy", " link", "\n", "a x 100"}

\* the number of characters of a piece
PieceLength(p) ==
  CASE p \in {"<", ">", "\n"} -> 1
    [] p \in {"scr", "ipt"} -> 3
    [] p = "copy" -> 4
    [] p = " link" -> 5
    [] p = "a x 100" -> 100

Texts == UNION {[1..n -> Pieces] : n \in 0..MaxPieces}

\* t.includes(a + b) for two pieces a and b
Spells(t, a, b) == \E k \in 1..(Len(t) - 1) : t[k] = a /\ t[k + 1] = b

\* lowerText.includes('script') || ... : of the five markers the pieces spell
\* "script" only
HasMarker(t) == Spells(t, "scr", "ipt")

\* lowerText.includes('add to board') || ... : of the five UI strings the
\* pieces spell "copy link" only
HasUiText(t) == Spells(t, "copy", " link")

\* the place of the first ">" of t at or after place k, 0 if there is none
RECURSIVE FirstClose(_, _)
FirstClose(t, k) ==
  IF k > Len(t) THEN 0 ELSE IF t[k] = ">" THEN k ELSE FirstClose(t, k + 1)

\* cleaned.replace(/<[^>]*>/g, ''), from place k on
RECURSIVE DropTags(_, _)
DropTags(t, k) ==
  IF k > Len(t) THEN <<>>
  ELSE IF t[k] = "<" /\ FirstClose(t, k) # 0
       THEN DropTags(t, FirstClose(t, k) + 1)
       ELSE <<t[k]>> \o DropTags(t, k + 1)

\* cleaned.replace(/^<[^>]*/, ''): a text that starts with "<" loses it and
\* what follows up to the first ">"
DropOpenStart(t) ==
  IF t # <<>> /\ t[1] = "<"
  THEN IF FirstClose(t, 1) = 0 THEN <<>> ELSE SubSeq(t, FirstClose(t, 1), Len(t))
  ELSE t

\* the place of the last "<" of t, 0 if there is none
LastOpen(t) ==
  IF \E k \in 1..Len(t) : t[k] = "<"
  THEN CHOOSE k \in 1..Len(t) : t[k] = "<" /\ \A j \in (k + 1)..Len(t) : t[j] # "<"
  ELSE 0

\* cleaned.replace(/[^<]*>$/, ''): a text that ends with ">" loses what
\* follows its last "<"
DropCloseEnd(t) ==
  IF t # <<>> /\ t[Len(t)] = ">" THEN SubSeq(t, 1, LastOpen(t)) ELSE t

\* cleaned.replace(/[<>]/g, '')
DropBrackets(t) == SelectSeq(t, LAMBDA p : p \notin {"<", ">"})

\* cleaned.trim(): of the pieces only the line break is white space at either
\* end (" link" starts with a blank, which is dealt with by TextLength)
RECURSIVE Trim(_)
Trim(t) ==
  IF t = <<>> THEN <<>>
  ELSE IF t[1] = "\n" THEN Trim(Tail(t))
  ELSE IF t[Len(t)] = "\n" THEN Trim(SubSeq(t, 1, Len(t) - 1))
  ELSE t

\* cleaned.length of a trimmed text: a blank at its start is trimmed away
RECURSIVE RawLength(_)
RawLength(t) == IF t = <<>> THEN 0 ELSE PieceLength(Head(t)) + RawLength(Tail(t))

TextLength(t) == RawLength(t) - (IF t # <<>> /\ t[1] = " link" THEN 1 ELSE 0)

\* cleaned.split('\n').length
Lines(t) == Len(SelectSeq(t, LAMBDA p : p = "\n")) + 1

\* the three replacements and the trim
Stripped(t) == Trim(DropBrackets(DropCloseEnd(DropOpenStart(DropTags(t, 1)))))

\* cleanTextHelper(text): <<>> for null, <<value>> otherwise; !text is true of
\* the empty text
CleanTextHelper(t) ==
  IF t = <<>> THEN <<>>
  ELSE IF HasMarker(t) \/ HasUiText(t) THEN <<>>
  ELSE LET c == Stripped(t)
       IN IF TextLength(c) > maxTextLength THEN <<>>
          ELSE IF Lines(c) > maxTextLines THEN <<>>
          ELSE IF c = <<>> THEN <<>>
          ELSE <<c>>

InitText ==
  /\ textPc = "call"
  /\ text \in Texts
  /\ cleaned = <<>>
  /\ ProxyParked
  /\ JobParked
  /\ DiscoveryParked
  /\ PoolParked
  /\ EntryParked
  /\ VpnParked
  /\ HealthParked
  /\ NormParked

\* the sanitizer is called with the text and returns
CleanText ==
  /\ textPc \in {"call", "call again"}
  /\ cleaned' = CleanTextHelper(text)
  /\ textPc' = IF textPc = "call" THEN "returned" ELSE "returned again"
  /\ UNCHANGED text
  /\ UNCHANGED notText

\* a value the sanitizer returned is handed to it again
CleanAgain ==
  /\ textPc = "returned"
  /\ cleaned # <<>>
  /\ text' = cleaned[1]
  /\ cleaned' = <<>>
  /\ textPc' = "call again"
  /\ UNCHANGED notText

NextText == CleanText \/ CleanAgain

(***************************************************************************)
(* VPNManager                                                              *)
(***************************************************************************)

\* the public methods of the claims
VpnOps == {"changeVPN", "verifyConnection", "waitForConnection", "changeAndVerify"}

\* changeVPN without the test of config.enabled
ChangeSkipped_IgnoresEnabled(c) == ~c.changeCommand

\* changeVPN: if (!this.config.enabled || !this.config.changeCommand) return true
ChangeSkipped(c) == ~c.enabled \/ ~c.changeCommand

\* verifyConnection: if (!this.config.enabled) return true
VerifySkipped(c) == ~c.enabled

\* waitForConnection: const maxAttempts = this.config.maxVerifyAttempts || 10
MaxVerifyAttempts(c) ==
  IF c.maxVerifyAttempts = 0 THEN defaultMaxVerifyAttempts ELSE c.maxVerifyAttempts

\* waitForConnection waiting after every failed attempt, the last one too
DelayBeforeRetry_Always(attempt, max) == TRUE

\* waitForConnection: if (attempt < maxAttempts) await setTimeout(delay)
DelayBeforeRetry(attempt, max) == attempt < max

\* changeAndVerify going on to waitForConnection whatever changeVPN returned
StopsAfterChange_Never(changeSuccess) == FALSE

\* changeAndVerify: if (!changeSuccess) return false
StopsAfterChange(changeSuccess) == ~changeSuccess

\* new VPNManager(config): the defaults, then the caller's fields
InitVpn ==
  /\ vpnConfig \in [enabled : BOOLEAN, changeCommand : BOOLEAN, verifyCommand : BOOLEAN,
                     maxVerifyAttempts : (1..MaxVerify) \cup {defaultMaxVerifyAttempts}]
  /\ vpnOp = "none"
  /\ vpnPc = "idle"
  /\ vpnAttempt = 0
  /\ vpnLog = <<>>
  /\ vpnResults = <<>>
  /\ changeFailed = FALSE
  /\ vpnRet = "pending"
  /\ ProxyParked
  /\ JobParked
  /\ DiscoveryParked
  /\ PoolParked
  /\ EntryParked
  /\ HealthParked
  /\ NormParked
  /\ TextParked

\* the caller calls one of the methods
VpnCall(op) ==
  /\ vpnPc = "idle"
  /\ vpnOp' = op
  /\ vpnPc' = IF op \in {"changeVPN", "changeAndVerify"} THEN "change" ELSE "verify"
  /\ vpnAttempt' = IF op = "verifyConnection" THEN 0 ELSE 1
  /\ UNCHANGED <<vpnConfig, vpnLog, vpnResults, changeFailed, vpnRet>>
  /\ UNCHANGED notVpn

\* what follows the return of changeVPN: the caller gets the result, or
\* changeAndVerify stops or starts waitForConnection at attempt 1
AfterChange(changeSuccess) ==
  IF vpnOp = "changeVPN" \/ StopsAfterChange(changeSuccess)
  THEN /\ vpnPc' = "done"
       /\ vpnRet' = IF changeSuccess THEN "true" ELSE "false"
  ELSE /\ vpnPc' = "verify"
       /\ UNCHANGED vpnRet

\* changeVPN up to its first await: the early return, or execAsync(command),
\* which resolves or rejects
ChangeVPN(commandOk) ==
  /\ vpnPc = "change"
  /\ IF ChangeSkipped(vpnConfig)
     THEN /\ commandOk
          /\ AfterChange(TRUE)
          /\ UNCHANGED <<vpnLog, changeFailed>>
     ELSE /\ vpnLog' = Append(vpnLog, "exec change")
          /\ IF commandOk
             THEN /\ vpnPc' = "stabilize"
                  /\ UNCHANGED <<vpnRet, changeFailed>>
             ELSE /\ changeFailed' = TRUE
                  /\ AfterChange(FALSE)
  /\ UNCHANGED <<vpnConfig, vpnOp, vpnAttempt, vpnResults>>
  /\ UNCHANGED notVpn

\* changeVPN: await setTimeout(resolve, this.config.waitAfterChange); return true
Stabilize ==
  /\ vpnPc = "stabilize"
  /\ vpnLog' = Append(vpnLog, "wait waitAfterChange")
  /\ AfterChange(TRUE)
  /\ UNCHANGED <<vpnConfig, vpnOp, vpnAttempt, vpnResults, changeFailed>>
  /\ UNCHANGED notVpn

\* One verifyConnection call: true at once when the VPN is not enabled,
\* else verifyWithCommand or verifyWithIPCheck, each of which catches its
\* errors and answers isConnected. The caller gets the result, or
\* waitForConnection returns true, goes on to its delay, or returns false.
VerifyConnection(isConnected) ==
  /\ vpnPc = "verify"
  /\ vpnOp # "verifyConnection" => vpnAttempt <= MaxVerifyAttempts(vpnConfig)
  /\ VerifySkipped(vpnConfig) => isConnected
  /\ vpnResults' = Append(vpnResults, isConnected)
  /\ vpnLog' = IF VerifySkipped(vpnConfig) THEN vpnLog
               ELSE IF vpnConfig.verifyCommand THEN Append(vpnLog, "exec verify")
               ELSE Append(vpnLog, "ip lookup")
  /\ IF vpnOp = "verifyConnection" \/ isConnected
     THEN /\ vpnPc' = "done"
          /\ vpnRet' = IF isConnected THEN "true" ELSE "false"
     ELSE IF DelayBeforeRetry(vpnAttempt, MaxVerifyAttempts(vpnConfig))
          THEN /\ vpnPc' = "delay"
               /\ UNCHANGED vpnRet
          ELSE /\ vpnPc' = "done"
               /\ vpnRet' = "false"
  /\ UNCHANGED <<vpnConfig, vpnOp, vpnAttempt, changeFailed>>
  /\ UNCHANGED notVpn

\* waitForConnection: await setTimeout(resolve, delay); attempt++; the loop
\* ends with `return false` when attempt has passed maxAttempts
VerifyDelay ==
  /\ vpnPc = "delay"
  /\ vpnLog' = Append(vpnLog, "wait verifyDelay")
  /\ vpnAttempt' = vpnAttempt + 1
  /\ IF vpnAttempt + 1 <= MaxVerifyAttempts(vpnConfig)
     THEN /\ vpnPc' = "verify"
          /\ UNCHANGED vpnRet
     ELSE /\ vpnPc' = "done"
          /\ vpnRet' = "false"
  /\ UNCHANGED <<vpnConfig, vpnOp, vpnResults, changeFailed>>
  /\ UNCHANGED notVpn

NextVpn ==
  \/ \E op \in VpnOps : VpnCall(op)
  \/ \E commandOk \in BOOLEAN : ChangeVPN(commandOk)
  \/ Stabilize
  \/ \E isConnected \in BOOLEAN : VerifyConnection(isConnected)
  \/ VerifyDelay

(***************************************************************************)
(* Specifications                                                          *)
(***************************************************************************)
SpecProxy == InitProxy /\ [][NextProxy]_vars

SpecJob == InitJob /\ [][NextJob]_vars

SpecRecords == InitRecords /\ [][NextRecords]_vars

\* every await of the discovery settles: timers fire, the browser answers
SpecDiscovery ==
  InitDiscovery /\ [][NextDiscovery]_vars /\ WF_vars(NextDiscovery)

SpecCollect == InitCollect /\ [][NextCollect]_vars

SpecPool == InitPool /\ [][NextPool]_vars

SpecEntry == InitEntry /\ [][NextEntry]_vars

SpecVpn == InitVpn /\ [][NextVpn]_vars

SpecHealth == InitHealth /\ [][NextHealth]_vars

SpecNorm == InitNorm /\ [][NextNorm]_vars

SpecText == InitText /\ [][NextText]_vars

(***************************************************************************)
(* Claims about the proxy pool (checked under SpecProxy)                   *)
(***************************************************************************)
SomeOtherHealthy(p) == \E q \in Pool \ {p} : stats[q].isHealthy

\* C7 (as stated): after 3 consecutive recordFailure calls on an endpoint and
\* no recordSuccess on it since, getNextProxy never returns it while another
\* endpoint of the pool is healthy.
C7_SkippedUntilSuccess ==
  lastOp.op = "getNextProxy" =>
    \A p \in Pool : struckOut[p] /\ SomeOtherHealthy(p) => lastOp.ret # p

\* C7 (amended): after 3 consecutive recordFailure calls on an endpoint, with
\* its counter not reset since (by recordSuccess, setProxyHealth(p, true),
\* resetStats or a health-check pass), getNextProxy never returns it while
\* another endpoint of the pool is healthy.
C7_SkippedUntilReset ==
  lastOp.op = "getNextProxy" =>
    \A p \in Pool :
      cleanStreak[p] >= maxFailures /\ SomeOtherHealthy(p) => lastOp.ret # p

\* C7 witness: getNextProxy has just returned a healthy endpoint while another
\* endpoint stood at 3 consecutive failures.
C7_Witness ==
  /\ lastOp.op = "getNextProxy"
  /\ \E p \in Pool : /\ cleanStreak[p] = maxFailures
                     /\ SomeOtherHealthy(p)
                     /\ lastOp.ret \in Pool \ {p}

\* C8 (as stated): an endpoint is unhealthy if and only if its
\* consecutive-failure counter is >= 3.
C8_UnhealthyIffThreshold ==
  \A p \in Pool : ~stats[p].isHealthy <=> stats[p].failedRequests >= maxFailures

\* C8 (amended): an endpoint is unhealthy if and only if its consecutive-failure
\* counter is >= 3 or it was marked unhealthy by setProxyHealth(p, false) and
\* not made healthy since.
C8_UnhealthyIffThresholdOrManual ==
  \A p \in Pool :
    ~stats[p].isHealthy <=> (stats[p].failedRequests >= maxFailures \/ manualDown[p])

\* C8 witness: recordFailure has just taken an endpoint's counter to 3 and
\* made it unhealthy.
C8_Witness ==
  /\ lastOp.op = "recordFailure"
  /\ stats[lastOp.p].failedRequests = maxFailures
  /\ ~stats[lastOp.p].isHealthy
  /\ ~manualDown[lastOp.p]

\* C9: recordSuccess leaves the endpoint with counter 0 and healthy whatever
\* its state was; a getNextProxy whose cursor stands on it then returns it,
\* and a recordFailure that follows takes the counter to 1.
C9_RecordSuccessResets ==
  [][\A p \in Pool :
       /\ (lastOp'.op = "recordSuccess" /\ lastOp'.p = p)
            => (stats'[p].failedRequests = 0 /\ stats'[p].isHealthy)
       /\ (lastOp.op = "recordSuccess" /\ lastOp.p = p /\ lastOp'.op = "getNextProxy"
             /\ proxies[currentIndex + 1] = p)
            => lastOp'.ret = p
       /\ (lastOp.op = "recordSuccess" /\ lastOp.p = p
             /\ lastOp'.op = "recordFailure" /\ lastOp'.p = p)
            => stats'[p].failedRequests = 1]_vars

\* C9 witness: recordSuccess has just been called on an unhealthy endpoint.
C9_Witness ==
  /\ lastOp.op = "recordSuccess"
  /\ ~lastOp.wasHealthy
  /\ stats[lastOp.p].isHealthy
  /\ stats[lastOp.p].failedRequests = 0

\* C10: while every endpoint has always been healthy, the i-th getNextProxy
\* call returns endpoint (i-1) mod n of the list.
C10_RoundRobin ==
  (lastOp.op = "getNextProxy" /\ rotation # Broken /\ Len(proxies) > 0)
    => lastOp.ret = proxies[((rotation - 1) % Len(proxies)) + 1]

\* C10 witness: call n+1 on a pool of n >= 2 endpoints has returned the first
\* endpoint again.
C10_Witness ==
  /\ lastOp.op = "getNextProxy"
  /\ Len(proxies) >= 2
  /\ rotation = Len(proxies) + 1
  /\ lastOp.ret = proxies[1]

\* C11: getNextProxy returns null exactly when the pool is empty; with a
\* non-empty pool, also one without a healthy endpoint, it returns an endpoint
\* of the pool.
C11_DegradedMode ==
  lastOp.op = "getNextProxy" =>
    /\ lastOp.ret = NoProxy <=> Len(proxies) = 0
    /\ Len(proxies) > 0 => lastOp.ret \in Pool

\* C11 witness: getNextProxy has returned an endpoint of a pool of two in
\* which no endpoint is healthy.
C11_Witness ==
  /\ lastOp.op = "getNextProxy"
  /\ Len(proxies) = 2
  /\ \A p \in Pool : ~stats[p].isHealthy
  /\ lastOp.ret \in Pool

\* getNextProxy has returned an endpoint of a pool of two or more endpoints
\* none of which is healthy
DegradedCall ==
  /\ lastOp.op = "getNextProxy"
  /\ Len(proxies) >= 2
  /\ \A p \in Pool : ~stats[p].isHealthy

\* the endpoint of the list that follows endpoint p
Following(p) ==
  LET k == CHOOSE j \in 1..Len(proxies) : proxies[j] = p
  IN proxies[(k % Len(proxies)) + 1]

\* C39: in degraded mode the cursor keeps advancing: after a getNextProxy call
\* on a pool of two or more endpoints that are all unhealthy, the next call
\* returns the endpoint that follows the one just returned, not the same one.
C39_DegradedAdvances ==
  DegradedCall => NextProxyResult.proxy = Following(lastOp.ret)

\* a call in degraded mode has returned the endpoint the cursor stands at, and
\* the cursor still stands at it: the next call returns it again
C39_Witness ==
  /\ DegradedCall
  /\ lastOp.ret = proxies[currentIndex + 1]
  /\ NextProxyResult.proxy = lastOp.ret
  /\ ENABLED GetNextProxy

(***************************************************************************)
(* Claims about the navigation controller and the retry pass               *)
(***************************************************************************)
\* C1: an item whose detail-page navigation returned 401, 403 or 404 gets one
\* extraction attempt in the whole job: the controller returns on that response
\* without navigating again, and no retry pass has the item in its input.
C1_TerminalAttemptedOnce ==
  [][/\ \A i \in Items : \A resp \in TerminalStatuses :
          Navigate(i, resp) => task'[i] = Returned
     /\ jobPc' = "retry" =>
          \A k \in 1..Len(work') :
            failures'[work'[k]].httpStatus \notin TerminalStatuses]_vars

\* the second extraction attempt of an item that answered 401, 403 or 404
C1_Witness ==
  \E i \in Items :
    /\ jobPc = "retry"
    /\ task[i].pc = "nav"
    /\ failures[i].httpStatus \in TerminalStatuses

\* C2: in one extractImageData call, a navigation that fails at attempt k below
\* maxAttempts with a status >= 500 or with a thrown error is followed by a wait
\* of 2000 * 2^(k-1) ms and attempt k+1, and the waits of one call grow strictly.
C2_ExponentialBackoff ==
  [][\A i \in Items : \A resp \in {500, Throw} :
       Navigate(i, resp) /\ task[i].attempt < maxAttempts =>
         /\ task'[i].pc = "nav"
         /\ task'[i].attempt = task[i].attempt + 1
         /\ task'[i].delay = 2000 * Pow2(task[i].attempt - 1)
         /\ task'[i].delay > task[i].delay]_vars

\* the third attempt of a call, reached after waits of 2000 and 4000 ms
C2_Witness ==
  \E i \in Items : task[i].pc = "nav" /\ task[i].attempt = 3 /\ task[i].delay = 4000

\* C3: a navigation answered 429 at attempt k below maxAttempts is followed by a
\* wait of 5000 * 2^(k-1) ms and attempt k+1, not by a return with a failure.
C3_RateLimitRetried ==
  [][\A i \in Items :
       Navigate(i, 429) /\ task[i].attempt < maxAttempts =>
         /\ task'[i].pc = "nav"
         /\ task'[i].attempt = task[i].attempt + 1
         /\ task'[i].delay = rateLimitBaseMs * Pow2(task[i].attempt - 1)]_vars

\* a call that returned on its first navigation with the failure of a 429
C3_Witness ==
  \E i \in Items :
    /\ jobPc = "extract"
    /\ task[i].pc = "done"
    /\ failureLog[i].httpStatus = 429
    /\ failureLog[i].attempts = 1

\* C4: one extractImageData call navigates at most maxAttempts (3) times; when
\* the 3rd navigation fails too (status >= 500 or thrown error) the call ends
\* without extracting, its image carries identifiers only, and the FailedScrape
\* it logs has attempts = 3 and the last status, or names the navigation error.
C4_AtMostMaxAttempts ==
  [][\A i \in Items :
       /\ task'[i].attempt <= 3
       /\ \A resp \in {500, Throw} :
            Navigate(i, resp) /\ task[i].attempt = maxAttempts =>
              /\ task'[i].pc = "done"
              /\ batchResults'[i] \in {CachedImage(i), Null}
              /\ jobPc = "extract" =>
                   /\ failureLog'[i].attempts = 3
                   /\ failureLog'[i].httpStatus = (IF resp = Throw THEN 0 ELSE resp)
                   /\ resp = Throw => failureLog'[i].reason = <<"Navigation timeout">>
              /\ jobPc = "retry" => failureLog'[i] # NoFailure]_vars

\* a call of the extraction pass that gave up after its third navigation
C4_Witness ==
  \E i \in Items :
    /\ jobPc = "extract"
    /\ task[i].pc = "done"
    /\ failureLog[i].attempts = maxAttempts
    /\ batchResults[i] = Image(i, FALSE)

(***************************************************************************)
(* Claims about the records and the failure table of a job                 *)
(***************************************************************************)
\* C12: when a retry task's extractImageData call returns, the item is recovered
\* (its FailedScrape removed, its record in the retry's results) only if the
\* record has a title, photographer or caption; a call that returns identifiers
\* only, without having thrown, leaves the item in the failure table with the
\* retry counted and resolves to null.
C12_RecoveredOnlyIfMeaningful ==
  [][\A i \in Items :
       jobPc = "retry" /\ task[i].pc \in {"nav", "extract"} /\ task'[i].pc = "done"
       /\ ~Uncaught(i) =>
         /\ failureLog'[i] = NoFailure <=> batchResults'[i] # Null
         /\ batchResults'[i] # Null => batchResults'[i] = Image(i, TRUE)
         /\ ExtractPage(i, "identifiers") /\ i \notin metadataCache =>
              /\ batchResults'[i] = Null
              /\ failureLog'[i] # NoFailure
              /\ failureLog'[i].retryAttempt = failures[i].retryAttempt + 1]_vars

\* a retry task that navigated, extracted identifiers only and so left its item
\* failed, in a job without cached payloads
C12_Witness ==
  \E i \in Items :
    /\ jobPc = "retry"
    /\ metadataCache = {}
    /\ task[i].pc = "done"
    /\ batchResults[i] = Null
    /\ failures[i].reason = <<"No metadata found">>
    /\ failureLog[i].reason = <<"No metadata found", "retry failed">>
    /\ failureLog[i].retryAttempt = 1
    /\ faults = 2

\* C13: the failure table has one record for an item or none.  When a retry
\* task ends, the item had its record; a recovery removes it; a failed retry
\* leaves one record in its place with attempts one more than the record it
\* replaces and the retry round set; no other item's record changes and the
\* table gains no record.
C13_OneRecordReplaced ==
  [][\A i \in Items :
       jobPc = "retry" /\ task[i].pc \in {"nav", "extract"} /\ task'[i].pc = "done" =>
         /\ failureLog[i] # NoFailure
         /\ batchResults'[i] # Null => failureLog'[i] = NoFailure
         /\ batchResults'[i] = Null =>
              /\ failureLog'[i] # NoFailure
              /\ failureLog'[i].attempts = failureLog[i].attempts + 1
              /\ failureLog'[i].retryAttempt = failureLog[i].retryAttempt + 1
              /\ failureLog'[i].retryAttempt >= 1
         /\ \A j \in Items \ {i} : failureLog'[j] = failureLog[j]
         /\ Failed(failureLog') \subseteq Failed(failureLog)]_vars

\* a failed retry of an item whose navigation failed again, and a recovery of
\* another item in the same retry pass
C13_Witness ==
  \E i, j \in Items :
    /\ jobPc = "retry"
    /\ task[i].pc = "done"
    /\ failures[i].attempts = 1 /\ failures[i].httpStatus = 404
    /\ failureLog[i].attempts = 2 /\ failureLog[i].retryAttempt = 1
    /\ failureLog[i].httpStatus = 404
    /\ failures[j] # NoFailure
    /\ failureLog[j] = NoFailure

\* the items that have a record in the list `imgs`
ItemsOf(imgs) == {imgs[k].imageId : k \in 1..Len(imgs)}

\* A finished job with details in which some items ran out of attempts on HTTP
\* 500 in the extraction pass and were recovered by the retry, and every other
\* item was extracted with metadata at once.
RecoveredFrom500 ==
  /\ jobPc = "completed"
  /\ config.extractDetails
  /\ \E i \in Items : failures[i] # NoFailure
  /\ \A i \in Items : failures[i] # NoFailure =>
       /\ failures[i].httpStatus = 500
       /\ failureLog[i] = NoFailure
  /\ \A i \in ItemsOf(images) : failures[i] = NoFailure =>
       \E k \in 1..Len(images) : images[k] = Image(i, TRUE)

\* C14: in such a job of N items the final output is N records, one for each
\* item and each with metadata, the failure table is empty, and the retry ran
\* (once: scrape() calls retryFailedImages at one place).
C14_RecoveredJobHasNRecords ==
  RecoveredFrom500 =>
    /\ Len(images) = Cardinality(ItemsOf(images))
    /\ \A k \in 1..Len(images) : images[k].meaningful
    /\ Failed(failureLog) = {}

\* the finished job of two items of which one was recovered from 500: its
\* output has three records, the recovered item's identifiers-only record of
\* the extraction pass among them
C14_Witness ==
  /\ RecoveredFrom500
  /\ ItemsOf(images) = {1, 2}
  /\ Len(images) = 3
  /\ \E i \in Items : \E k, l \in 1..Len(images) :
       images[k] = Image(i, FALSE) /\ images[l] = Image(i, TRUE)

\* the items whose extraction-pass call failed and whose retry returned a
\* record with metadata
Recovered ==
  {i \in Items : /\ failures[i] # NoFailure
                  /\ failureLog[i] = NoFailure
                  /\ \E k \in 1..Len(images) : images[k] = Image(i, TRUE)}

\* C35: the list of records a completed job returns and hands to the storage
\* has at most one record for an image-id, recovered items included.
C35_OneRecordPerItem ==
  jobPc = "completed" =>
    \A k, l \in 1..Len(images) : images[k].imageId = images[l].imageId => k = l

\* a completed job whose list holds, for an item that was recovered by the
\* retry, the record of the extraction pass and after it the recovered one
C35_Witness ==
  /\ jobPc = "completed"
  /\ \E i \in Recovered : \E k, l \in 1..Len(images) :
       k < l /\ images[k] = Image(i, FALSE) /\ images[l] = Image(i, TRUE)

\* C36: the row the storage holds for an item that failed in the extraction
\* pass and was recovered by the retry is the recovered record, with metadata.
C36_RecoveredRecordPersisted ==
  jobPc = "completed" =>
    \A i \in Recovered : \A k \in 1..Len(storedImages) :
      storedImages[k].imageId = i => storedImages[k].meaningful

\* the storage holds the identifiers-only row of a recovered item and no other
\* row of that item
C36_Witness ==
  /\ jobPc = "completed"
  /\ \E i \in Recovered :
       /\ \E k \in 1..Len(storedImages) : storedImages[k] = Image(i, FALSE)
       /\ \A k \in 1..Len(storedImages) : storedImages[k] # Image(i, TRUE)

\* C15: when the job is completed, every link that was handed to the worker
\* pool has a record in the final output, and an item that is still in the
\* failure table has one as well.
C15_EveryAttemptedItemHasRecord ==
  jobPc = "completed" =>
    /\ \A k \in 1..Len(limitedLinks) : limitedLinks[k] \in ItemsOf(images)
    /\ Failed(failureLog) \subseteq ItemsOf(images)

\* a completed job whose output has no record for an item whose task threw in
\* the extraction pass and that the retry did not recover
C15_Witness ==
  \E i \in Items :
    /\ jobPc = "completed"
    /\ \E k \in 1..Len(limitedLinks) : limitedLinks[k] = i
    /\ failures[i].reason = <<"Uncaught exception">>
    /\ failureLog[i] # NoFailure
    /\ i \notin ItemsOf(images)

\* C16: an extraction-pass navigation answered 404 ends the call with the
\* identifiers-only record as the task's result and a FailedScrape with the
\* HTTP 404 reason and httpStatus 404; and a FailedScrape with httpStatus 404
\* stays in the table, with that status and reason, in every later step of the
\* job.
C16_NotFoundStaysLogged ==
  [][\A i \in Items :
       /\ Navigate(i, 404) /\ jobPc = "extract" =>
            /\ batchResults'[i] = Image(i, FALSE)
            /\ failureLog'[i].httpStatus = 404
            /\ failureLog'[i].reason = <<"HTTP 404 - Image Not Found">>
       /\ failureLog[i].httpStatus = 404 =>
            /\ failureLog'[i].httpStatus = 404
            /\ Head(failureLog'[i].reason) = "HTTP 404 - Image Not Found"]_vars

\* a completed job in which an item that answered 404 in the extraction pass
\* was retried, recovered and taken out of the failure table
C16_Witness ==
  \E i \in Items :
    /\ jobPc = "completed"
    /\ failures[i].httpStatus = 404
    /\ failures[i].reason = <<"HTTP 404 - Image Not Found">>
    /\ failureLog[i] = NoFailure

\* the number of tasks of the open batch, from position k on, that resolved to
\* a record
RECURSIVE Resolved(_)
Resolved(k) ==
  IF k \notin BatchRange THEN 0
  ELSE (IF batchResults[work[k]] = Null THEN 0 ELSE 1) + Resolved(k + 1)

\* what C17 says of a step in which the task of item i throws, but for the
\* reason it logs: the batch stays open, no other task and no record changes,
\* the task resolves to null and the item has a FailedScrape
ThrowIsContained(i) ==
  /\ batchOpen'
  /\ jobPc' = jobPc
  /\ \A j \in Items \ {i} :
       /\ task'[j] = task[j]
       /\ batchResults'[j] = batchResults[j]
       /\ failureLog'[j] = failureLog[j]
  /\ results' = results
  /\ batchResults'[i] = Null
  /\ failureLog'[i] # NoFailure

\* what C17 says of the step that settles a batch: every record the batch's
\* tasks resolved to is kept, a null adds nothing, and the pass goes on to the
\* next batch
BatchIsKept ==
  /\ \A j \in BatchItems :
       batchResults[j] # Null => \E k \in 1..Len(results') : results'[k] = batchResults[j]
  /\ Len(results') = Len(results) + Resolved(batchStart + 1)
  /\ jobPc' = jobPc
  /\ batchStart' = batchStart + BatchSize

\* C17 as stated: whichever pass the task belongs to, the FailedScrape of the
\* item whose task threw has a reason that begins with "Uncaught exception".
C17_UncaughtReasonEverywhere ==
  [][/\ \A i \in Items : Uncaught(i) =>
          /\ ThrowIsContained(i)
          /\ Head(failureLog'[i].reason) = "Uncaught exception"
     /\ SettleBatch => BatchIsKept]_vars

\* C17, amended: an exception thrown by a task does not abort its batch, the
\* other tasks settle and their records are kept, later batches run and the
\* task resolves to null; the item's FailedScrape begins with "Uncaught
\* exception" in the extraction pass and names the retry's exception in the
\* retry pass.
C17_ExceptionContained ==
  [][/\ \A i \in Items : Uncaught(i) =>
          /\ ThrowIsContained(i)
          /\ jobPc = "extract" => Head(failureLog'[i].reason) = "Uncaught exception"
          /\ jobPc = "retry" => Head(failureLog'[i].reason) = "Retry exception"
     /\ SettleBatch => BatchIsKept]_vars

\* an extraction batch of two tasks has settled: one threw and left no record,
\* the other's record is in the results
C17_Witness ==
  \E i, j \in Items :
    /\ jobPc = "extract"
    /\ config.concurrency = 2
    /\ batchStart = 2
    /\ ~batchOpen
    /\ failureLog[i].reason = <<"Uncaught exception">>
    /\ i \notin ItemsOf(results)
    /\ results = <<Image(j, TRUE)>>

(***************************************************************************)
(* Claims about the worker pool (checked under SpecPool)                   *)
(***************************************************************************)
\* the links of the list the pool was given
PoolLinks == 1..linkCount

\* C18: a task has started only when every task of every earlier batch has
\* settled and, in the extraction pass, the progress callback of every earlier
\* batch has returned; the callback of a batch has returned only when all tasks
\* of that batch have settled; and while a callback runs no task is in flight.
C18_BatchBoundaries ==
  /\ \A a \in PoolLinks :
       linkState[a] # "waiting" =>
         /\ \A b \in PoolLinks : BatchOf(b) < BatchOf(a) => linkState[b] = "settled"
         /\ poolPass = "extract" => progressCalls >= BatchOf(a)
  /\ \A b \in PoolLinks : BatchOf(b) < progressCalls => linkState[b] = "settled"
  /\ poolPc = "progress" =>
       /\ \A l \in PoolLinks : linkState[l] # "running"
       /\ \A l \in PoolBatch : linkState[l] = "settled"

\* the task of the second batch is in flight after the first batch has settled
\* and its progress callback has returned
C18_Witness ==
  /\ poolPass = "extract"
  /\ poolConcurrency = 1
  /\ linkCount = 2
  /\ linkState[1] = "settled"
  /\ linkState[2] = "running"
  /\ progressCalls = 1

\* the worker pages that are open
OpenPages == {k \in PageIds : pages[k] = "open"}

\* C19: from the end of the opening loop to the finally block the pool has
\* exactly `concurrency` open worker pages, in either pass; a batch has at most
\* `concurrency` links; every task in flight has an open page of the pool, and
\* no two tasks in flight have the same page.
C19_OneTaskPerPage ==
  /\ poolPc \in {"loop", "batch", "progress"} =>
       /\ pushed = poolConcurrency
       /\ Cardinality(OpenPages) = poolConcurrency
  /\ Cardinality(PoolBatch) <= poolConcurrency
  /\ \A a \in PoolLinks :
       linkState[a] = "running" =>
         /\ linkPage[a] \in OpenPages
         /\ linkPage[a] <= pushed
         /\ \A b \in PoolLinks \ {a} :
              linkState[b] = "running" => linkPage[b] # linkPage[a]

\* two tasks of one batch in flight, each on its own page
C19_Witness ==
  /\ poolConcurrency = 2
  /\ linkState[1] = "running"
  /\ linkState[2] = "running"
  /\ linkPage[1] = 1
  /\ linkPage[2] = 2

\* C20: when a pool operation has returned or thrown, no page that newPage
\* returned is left without its close having been called, and the operation
\* threw only for an error of the opening loop or of the progress callback,
\* never for a close that failed.
C20_EveryPageClosedOnExit ==
  poolPc \in {"returned", "threw"} =>
    /\ OpenPages = {}
    /\ poolPc = "threw" => poolError # "none"

\* the operation has thrown out of its opening loop after the first page was
\* opened and pushed: that page is still open
C20_Witness ==
  /\ poolPc = "threw"
  /\ poolError = "open"
  /\ poolConcurrency = 2
  /\ pushed = 1
  /\ pages[1] = "open"

\* the FailedScrapes an item's own errors leave: a terminal status, a status
\* given up on after maxAttempts, a page without metadata, a thrown exception
TerminalFailure(f) == f.httpStatus \in TerminalStatuses

ExhaustedFailure(f) == f.attempts >= maxAttempts /\ f.httpStatus \notin TerminalStatuses

StructuralFailure(f) == f # NoFailure /\ Head(f.reason) = "No metadata found"

ExceptionFailure(f) ==
  f # NoFailure /\ Head(f.reason) \in {"Uncaught exception", "Retry exception"}

\* C23: whatever the items of a job do, the job never gets the status error:
\* until it has completed it can take a step, and when it has completed its
\* status is completed.
C23_ItemErrorsAbsorbed ==
  /\ jobStatus # "error"
  /\ jobPc # "threw"
  /\ jobPc = "completed" => jobStatus = "completed"
  /\ jobPc # "completed" => ENABLED NextRecords

\* a completed job all of whose items failed in the extraction pass, one of
\* them by an exception of its task and one by a terminal status that is
\* still in the table at the end
C23_Witness ==
  /\ jobPc = "completed"
  /\ jobStatus = "completed"
  /\ Len(limitedLinks) = NumItems
  /\ Failed(failures) = Items
  /\ \E i, j \in Items :
       /\ ExceptionFailure(failures[i])
       /\ TerminalFailure(failures[j])
       /\ TerminalFailure(failureLog[j])

\* a completed job that had a failure given up on after maxAttempts navigations
C23_WitnessExhausted ==
  /\ jobPc = "completed"
  /\ jobStatus = "completed"
  /\ \E i \in Items : ExhaustedFailure(failures[i])

\* a completed job with a failure of a page without metadata
C23_WitnessStructural ==
  /\ jobPc = "completed"
  /\ jobStatus = "completed"
  /\ \E i \in Items : StructuralFailure(failureLog[i])

(***************************************************************************)
(* Claims about the text sanitizer                                         *)
(***************************************************************************)

\* the value the sanitizer has returned is well-formed: not empty, at most 200
\* characters and 3 lines, without an angle bracket
WellFormed(v) ==
  /\ v # <<>>
  /\ TextLength(v) <= maxTextLength
  /\ Lines(v) <= maxTextLines
  /\ \A k \in 1..Len(v) : v[k] \notin {"<", ">"}

\* C34: every value the sanitizer returns other than null is not empty, has at
\* most 200 characters and at most 3 lines, holds no "<" or ">" and none of
\* the injection markers; sanitizing it again returns it unchanged.
C34_SanitizedIsClean ==
  textPc \in {"returned", "returned again"} /\ cleaned # <<>> =>
    /\ WellFormed(cleaned[1])
    /\ ~HasMarker(cleaned[1])
    /\ CleanTextHelper(cleaned[1]) = cleaned

\* the sanitizer has returned "script" for a text that had a tag inside the word
C34_Witness ==
  /\ textPc = "returned"
  /\ text = <<"scr", "<", ">", "ipt">>
  /\ cleaned = << <<"scr", "ipt">> >>

\* what holds of every value returned: it is well-formed
C34_SanitizedIsWellFormed ==
  textPc \in {"returned", "returned again"} /\ cleaned # <<>> => WellFormed(cleaned[1])

(***************************************************************************)
(* Claims about normalize (parseMetadata)                                  *)
(***************************************************************************)

\* the sources below the label/value pairs, in their order of priority
LowerSources == {"caption", "title line", "json"}

\* C30: no output field, scalar or tags, that holds a value set by a
\* higher-priority source is overwritten or altered by a lower-priority
\* source (caption heuristics, title line, side-channel JSON); the JSON blob
\* only fills fields that are still empty.
C30_HigherPriorityKept == source \in LowerSources => altered = {}

\* the JSON blob has changed tags that a label or the keywords had set
C30_Witness == source = "json" /\ "tags" \in altered /\ normPc = "done"

\* the scalar fields are kept by every lower-priority source
C30_ScalarsKept == source \in LowerSources => altered \subseteq {"tags"}

(***************************************************************************)
(* Claims about the frame of scrape() (checked under SpecEntry)            *)
(***************************************************************************)

\* the entry navigation has failed on every one of its attempts
EntryNavigationFailed ==
  /\ ~navigationSuccess
  /\ navAttempts = entryMaxAttempts
  /\ entryPc # "navigate"

C37_CompletedIsFinal == [][rowStatus = "completed" => rowStatus' = "completed"]_vars

\* scrape() has rejected with the error of its epilogue: the row that was
\* completed has status error
C37_Witness ==
  /\ entryPc = "threw"
  /\ "extraction" \in started
  /\ caught = "callback failed"
  /\ rowStatus = "error"
  /\ rowError = "callback failed"

(***************************************************************************)
(* Claims about the health checks (checked under SpecHealth)               *)
(***************************************************************************)

\* the endpoint whose check performHealthChecks is awaiting
Checked == proxies[healthAt]

Occurrences(e) == Cardinality({k \in 1..Len(vpnLog) : vpnLog[k] = e})

\* the call in progress runs waitForConnection's loop
Waiting == vpnOp \in {"waitForConnection", "changeAndVerify"}

C26_WaitForConnection ==
  Waiting =>
    /\ Len(vpnResults) <= MaxVerifyAttempts(vpnConfig)
    /\ \A k \in 1..(Len(vpnResults) - 1) : ~vpnResults[k]
    /\ vpnPc = "verify" => Occurrences("wait verifyDelay") = Len(vpnResults)
    /\ vpnPc = "delay" => Occurrences("wait verifyDelay") = Len(vpnResults) - 1
    /\ vpnPc = "done" /\ vpnResults # <<>> =>
         /\ vpnRet = "true" <=> vpnResults[Len(vpnResults)]
         /\ vpnRet = "false" => Len(vpnResults) = MaxVerifyAttempts(vpnConfig)
         /\ Occurrences("wait verifyDelay") = Len(vpnResults) - 1
         /\ vpnLog # <<>> => vpnLog[Len(vpnLog)] # "wait verifyDelay"

\* waitForConnection has returned false after the default 10 calls, with 9
\* waits between them
C26_Witness ==
  /\ vpnOp = "waitForConnection"
  /\ vpnConfig.maxVerifyAttempts = defaultMaxVerifyAttempts
  /\ vpnPc = "done"
  /\ vpnRet = "false"
  /\ Len(vpnResults) = 10
  /\ Occurrences("wait verifyDelay") = 9

\* C27: on an enabled manager, changeAndVerify returns true only if the
\* change command did not fail and the last verifyConnection call verified;
\* when the command fails no verifyConnection call is made and false is
\* returned; and when the command was executed, the wait of waitAfterChange
\* comes right after it and before the first verifyConnection call.
C27_ChangeAndVerify ==
  vpnOp = "changeAndVerify" /\ vpnConfig.enabled =>
    /\ vpnRet = "true" =>
         ~changeFailed /\ vpnResults # <<>> /\ vpnResults[Len(vpnResults)]
    /\ changeFailed =>
         /\ vpnResults = <<>>
         /\ vpnPc = "done" /\ vpnRet = "false"
         /\ vpnLog = <<"exec change">>
    /\ vpnResults # <<>> /\ Occurrences("exec change") > 0 =>
         /\ Len(vpnLog) >= 3
         /\ vpnLog[1] = "exec change"
         /\ vpnLog[2] = "wait waitAfterChange"
         /\ Occurrences("exec change") = 1
         /\ Occurrences("wait waitAfterChange") = 1

\* changeAndVerify has returned true: command, wait, a lookup that did not
\* verify, the delay, a lookup that verified
C27_Witness ==
  /\ vpnOp = "changeAndVerify"
  /\ vpnConfig.enabled
  /\ vpnPc = "done"
  /\ vpnRet = "true"
  /\ vpnLog = <<"exec change", "wait waitAfterChange", "ip lookup", "wait verifyDelay",
                "ip lookup">>

\* changeAndVerify has returned false because the command failed
C27_WitnessFailed ==
  /\ vpnOp = "changeAndVerify"
  /\ vpnConfig.enabled
  /\ changeFailed
  /\ vpnPc = "done"
  /\ vpnRet = "false"

(***************************************************************************)
(* Claims about the retry scheduling                                       *)
(***************************************************************************)

\* the items whose FailedScrape is not one of the terminal statuses
Retryable(log) == {i \in Failed(log) : log[i].httpStatus \notin TerminalStatuses}

\* C21: a job with extractDetails ends its retry scheduling only when no
\* retryable failure is left or config.maxRetryRounds rounds have run, and no
\* round is started with an empty failure set.
C21_RoundsUntilEmptyOrMax ==
  /\ jobPc \in {"finalize", "completed"} /\ config.extractDetails =>
       Retryable(failureLog) = {} \/ retryRound = config.maxRetryRounds
  /\ jobPc = "retry" => Failed(failures) # {} /\ Len(work) > 0

\* a completed job, maxRetryRounds 3, that ran one retry round and still holds
\* an item that failed retryably in the extraction pass and again in the round
C21_Witness ==
  \E i \in Items :
    /\ jobPc = "completed"
    /\ config.maxRetryRounds = 3
    /\ retryRound = 1
    /\ i \in Retryable(failures)
    /\ i \in Retryable(failureLog)
    /\ failureLog[i].retryAttempt = 1

\* the links whose task is in flight
InFlight == {l \in PoolLinks : linkState[l] = "running"}

\* C22: while retryFailedImages runs, at most one retry extraction is in
\* flight.
C22_RetryOneAtATime ==
  poolPass = "retry" => Cardinality(InFlight) <= 1

\* a retry round with two extractions in flight, each on its own worker page
C22_Witness ==
  /\ poolPass = "retry"
  /\ poolPc = "batch"
  /\ \E a, b \in InFlight : a # b /\ linkPage[a] # linkPage[b]

\* C33: in the extraction pass the attempted count written with the progress
\* grows from batch to batch by the size of the batch and is the number of
\* links after the last batch; the progress written never decreases and is 100
\* at the end of a pass that returns, whatever the tasks resolved to.
C33_ProgressMonotonic ==
  /\ \A k \in 1..Len(progressLog) :
       LET before == IF k = 1 THEN ProgressUpdate(0) ELSE progressLog[k - 1]
           size == MinOf(PoolBatchSize, linkCount - before.attempted)
       IN /\ size > 0
          /\ progressLog[k].attempted = before.attempted + size
          /\ progressLog[k].progress >= before.progress
          /\ progressLog[k].progress \in 0..100
  /\ poolPass = "extract" /\ poolPc = "returned" /\ linkCount > 0 =>
       /\ progressLog # <<>>
       /\ progressLog[Len(progressLog)].attempted = linkCount
       /\ progressLog[Len(progressLog)].progress = 100

\* an extraction pass of two batches has returned: two updates were written
C33_Witness ==
  /\ poolPass = "extract"
  /\ poolPc = "returned"
  /\ Len(progressLog) = 2
  /\ progressLog[1].progress < progressLog[2].progress

(***************************************************************************)
(* Claims about link discovery                                             *)
(***************************************************************************)

\* the steps the discovery counts as successful
SuccessfulSteps == {"page change", "click progress", "scroll growth", "patience growth"}

\* C28: a step that changed the page by a click, raised the item count by a
\* click, or grew the scroll height by a scroll or a patience round has called
\* the collect-items callback before the next step is taken.
C28_CollectAfterEverySuccess ==
  stepDone \in SuccessfulSteps => callbackRan

\* the discovery is back at the head of its loop after a scroll that grew the
\* page, holding the links of the initial collection only
C28_Witness ==
  /\ stepDone = "scroll growth"
  /\ discPc = "head"
  /\ ~callbackRan
  /\ Len(discoveredLinks) = 1

C32_PatienceLoop ==
  /\ [](/\ round \in 1..patienceRounds
        /\ stepDone = "patience growth" => discPc = "head" /\ exitBy = "none"
        /\ exitBy = "patience" => discPc \in {"final", "done"})
  /\ [][exitBy' = "patience" /\ exitBy # "patience" =>
         /\ discPc = "patience" /\ round = patienceRounds
         /\ pageUrl' = pageUrl /\ pageImgs' = pageImgs
         /\ discPc' = "final"]_vars

\* five rounds without growth have ended a discovery that is now complete
C32_Witness == exitBy = "patience" /\ discPc = "done" /\ pageImgs > 0

\* the fifth round of a patience loop is about to run
C32_WitnessFifthRound == discPc = "patience" /\ round = patienceRounds

\* C38: with maxImages unbounded the discovery comes to its end on every site
\* that shows finitely many page states (URL, item count), a site whose next
\* control changes the URL at every click and leads back to a visited URL
\* included.  (Every site of the model shows finitely many page states.)
C38_DiscoveryTerminates == (maxImages = 0 /\ autoScroll) => <>(discPc = "done")

\* a click has changed the URL to that of a page state the loop has visited,
\* and the loop is at its head with the visited-page test switched off
C38_Witness ==
  /\ maxImages = 0
  /\ discPc = "head"
  /\ stepDone = "page change"
  /\ justClickedPagination
  /\ <<pageUrl, imageCount>> \in visitedPages

\* a discovery that does not come to its end makes successful clicks for ever
C38_OnlyClicksGoOn ==
  <>(discPc = "done") \/ []<>(stepDone \in {"page change", "click progress"})

\* C40: every progress value a run writes to the job's row lies in 0..100, in
\* the discovery (where it comes from the number of images on the page and
\* maxImages) and in the extraction.
C40_ProgressInRange ==
  /\ progress \in 0..100
  /\ \A k \in 1..Len(progressLog) : progressLog[k].progress \in 0..100

\* the discovery has written a progress above 100 for a page that shows more
\* images than maxImages
C40_Witness ==
  /\ discPc = "click"
  /\ maxImages > 0
  /\ imageCount > maxImages
  /\ progress = RoundPercent(imageCount, maxImages)
  /\ progress > 100

\* C5: after every collection step (initial page, after a pagination step,
\* final page) discoveredLinks holds at most one entry per imageId; an id that
\* is met again gets the latest link and the number of entries stays, so the
\* map then has one entry for every id it held or was given.
C5_OneEntryPerId ==
  [][/\ \A a, b \in 1..Len(discoveredLinks') :
          a # b => discoveredLinks'[a].imageId # discoveredLinks'[b].imageId
     /\ LET links == lastCollected'
        IN /\ \A k \in 1..Len(links) :
                (\A j \in (k + 1)..Len(links) : links[j].imageId # links[k].imageId)
                  => \E m \in 1..Len(discoveredLinks') : discoveredLinks'[m] = links[k]
           /\ Len(discoveredLinks') =
                Cardinality(IdsOf(discoveredLinks) \cup IdsOf(links))
           /\ \A m \in 1..Len(discoveredLinks) :
                discoveredLinks[m].imageId \notin IdsOf(links)
                  => discoveredLinks'[m] = discoveredLinks[m]]_vars

\* an id was collected twice with different links and the map has one entry
C5_Witness == rediscovered /\ Len(discoveredLinks) = 1 /\ discPc = "done"

\* C6: on a page whose URL and img count never change, autoScroll starts at
\* most two loop bodies (the key repeats at the third loop head, which breaks),
\* and the discovery comes to its end.
C6_FixedPageTerminates ==
  /\ [](fixedPage => iterations <= 2)
  /\ <>(~fixedPage \/ discPc = "done")

\* the loop of an unchanged page left by the visited-page test at its third head
C6_Witness == fixedPage /\ exitBy = "visited" /\ iterations = 2 /\ discPc = "done"

====
